---- MODULE Spec2Model ----
(***************************************************************************)
(* A model of the CHIP-8 engine of chip-rs: the nibble codec, the opcode   *)
(* decoder, the register/stack/timer/screen/keypad structures and the      *)
(* fetch-decode-execute-tick cycle of Chip8, driven as src/bin/main.rs     *)
(* drives it: new, load_program, initialize, start.                        *)
(*                                                                         *)
(* A Rust operation ends in one of three ways: it returns Ok, it returns   *)
(* Err (the `?` operator hands the Err to the caller), or it panics (an    *)
(* index out of bounds, or an integer overflow in a build with overflow    *)
(* checks).  The field `res` of an engine record is "ok", "err" or         *)
(* "panic" accordingly, and every operation on an engine whose `res` is    *)
(* not "ok" leaves it as it is: nothing runs after an Err or a panic.      *)
(***************************************************************************)
EXTENDS Integers, Sequences, FiniteSets, TLC

VARIABLES
    memory,            \* Chip8.memory: the non-zero bytes of [u8; 4096], address |-> byte
    data_registers,    \* Chip8.data_registers: [u8; 16]
    address_register,  \* Chip8.address_register (I)
    program_counter,   \* Chip8.program_counter
    stack,             \* Chip8.stack: [u16; 16]
    stack_pointer,     \* Chip8.stack_pointer: u16
    should_draw,       \* Chip8.should_draw
    keypad,            \* Chip8.keypad._inner: [bool; 16]
    delay_timer,       \* Chip8.delay_timer
    sound_timer,       \* Chip8.sound_timer
    screen,            \* Chip8.screen: the indices of [bool; 64 * 32] that hold true
    overflow_checks,   \* the build: TRUE when integer overflow panics (cargo's dev profile)
    phase,             \* where main is: "new", "loaded", "step", "render", "exit_err", "panicked"
    load_ok,           \* whether load_program read the file
    beep,              \* whether the last cycle printed BEEP!
    rendered,          \* whether the last pass of start's loop printed the screen
    shown,             \* the last screen start printed: the cells <<row, column>> that
                       \* hold a star
    last,              \* history: the engine as the last cycle found it, what it fetched,
                       \* how it ended, the engine found by the call it returned from,
                       \* the same of the cycle before it (prior), whether the last
                       \* set-sound set a value >= 1 and the BEEP!s printed since it
    call_sites,        \* history: the engines found by the calls that have not returned yet
    probe              \* the value a unit (decoder, nibble codec, timer) is applied to on
                       \* its own, and what it returned; NoProbe in a run of main

vars == <<memory, data_registers, address_register, program_counter, stack,
          stack_pointer, should_draw, keypad, delay_timer, sound_timer, screen,
          overflow_checks, phase, load_ok, beep, rendered, shown, last, call_sites,
          probe>>

---------------------------------------------------------------------------
\* Sizes and offsets of the program.

MemorySize == 4096
NumRegisters == 16
StackSize == 16
ScreenWidth == 64
ScreenSize == 2048
ProgramOffset == 512
FontOffset == 0
FontSpriteBase == 4016
U8 == 256
U16 == 65536
AddressMask == 4096
NUM_ROWS == 32
NUM_COLS == 64

---------------------------------------------------------------------------
\* Bit arithmetic on u8 operands.

\* bit k of v (v & (1 << k) != 0, as 0 or 1)
Bit(v, k) == (v \div (2 ^ k)) % 2

RECURSIVE BitOp(_, _, _, _)
\* op is "and", "or" or "xor"; n is the number of bits still to combine
BitOp(op, a, b, n) ==
    IF n = 0 THEN 0
    ELSE LET x == a % 2
             y == b % 2
             bit == CASE op = "and" -> IF x = 1 /\ y = 1 THEN 1 ELSE 0
                      [] op = "or"  -> IF x = 1 \/ y = 1 THEN 1 ELSE 0
                      [] op = "xor" -> IF x # y THEN 1 ELSE 0
         IN  bit + 2 * BitOp(op, a \div 2, b \div 2, n - 1)

---------------------------------------------------------------------------
\* Nibble codec (data_structures/nibble.rs).

\* mutant of NibblePairFrom: the two halves change places
NibblePairFrom_Swapped(full_byte) ==
    [high |-> full_byte % 16, low |-> full_byte \div 16]

\* impl From<u8> for NibblePair
NibblePairFrom(full_byte) ==
    [high |-> full_byte \div 16, low |-> full_byte % 16]

\* mutant of HexChars: lower-case digits
HexChars_Lower == <<"0", "1", "2", "3", "4", "5", "6", "7",
                    "8", "9", "a", "b", "c", "d", "e", "f">>

HexChars == <<"0", "1", "2", "3", "4", "5", "6", "7",
              "8", "9", "A", "B", "C", "D", "E", "F">>

\* Nibble::to_hex_char
to_hex_char(nibble) == HexChars[nibble + 1]

\* Nibble::to_u8
to_u8(nibble) == nibble

\* impl Display for Nibble: the four characters written for each variant
NibbleStrings == <<
    <<"0", "0", "0", "0">>, <<"0", "0", "0", "1">>, <<"0", "0", "1", "0">>,
    <<"0", "0", "1", "1">>, <<"0", "1", "0", "0">>, <<"0", "1", "0", "1">>,
    <<"0", "1", "1", "0">>, <<"0", "1", "1", "1">>, <<"1", "0", "0", "0">>,
    <<"1", "0", "0", "1">>, <<"1", "0", "1", "0">>, <<"1", "0", "1", "1">>,
    <<"1", "1", "0", "0">>, <<"1", "1", "0", "1">>, <<"1", "1", "1", "0">>,
    <<"1", "1", "1", "1">> >>

NibbleDisplay(nibble) == NibbleStrings[nibble + 1]

RECURSIVE u8_from_str_radix(_, _, _)
\* u8::from_str_radix(str, radix) on binary or decimal digits, acc being the value of
\* the characters read so far: Err on a character that is no digit of the radix and
\* on a value past u8::MAX
u8_from_str_radix(str, radix, acc) ==
    IF str = <<>> THEN [ok |-> TRUE, v |-> acc]
    ELSE LET c == Head(str)
             digit == CASE c = "0" -> 0 [] c = "1" -> 1 [] c = "2" -> 2 [] c = "3" -> 3
                        [] c = "4" -> 4 [] c = "5" -> 5 [] c = "6" -> 6 [] c = "7" -> 7
                        [] c = "8" -> 8 [] c = "9" -> 9 [] OTHER -> -1
             next == (acc * radix) + digit
         IN  IF digit = -1 \/ digit >= radix \/ next >= 256 THEN [ok |-> FALSE, v |-> 0]
             ELSE u8_from_str_radix(Tail(str), radix, next)

\* impl From<NibblePair> for u8: format!("{}{}", pair.high, pair.low) parsed in
\* radix 2 and unwrapped; panic is the unwrap of an Err
U8FromNibblePair(pair) ==
    LET concatenated_str == NibbleDisplay(pair.high) \o NibbleDisplay(pair.low)
        parsed == u8_from_str_radix(concatenated_str, 2, 0)
    IN  [panic |-> ~parsed.ok, v |-> parsed.v]

\* usize::from_str_radix(&String::from(c), 16): the digit's value, -1 for a ParseIntError
from_str_radix(c) ==
    CASE c = "0" -> 0  [] c = "1" -> 1  [] c = "2" -> 2  [] c = "3" -> 3
      [] c = "4" -> 4  [] c = "5" -> 5  [] c = "6" -> 6  [] c = "7" -> 7
      [] c = "8" -> 8  [] c = "9" -> 9
      [] c \in {"A", "a"} -> 10  [] c \in {"B", "b"} -> 11
      [] c \in {"C", "c"} -> 12  [] c \in {"D", "d"} -> 13
      [] c \in {"E", "e"} -> 14  [] c \in {"F", "f"} -> 15
      [] OTHER -> -1

---------------------------------------------------------------------------
\* Opcode decoder (virtual_machine/opcode.rs).

\* mutant of Decode: a word with leading digit 5 decodes only with fourth digit 0
Decode_StrictFive(value) ==
    LET high_pair == NibblePairFrom(value \div 256)
        low_pair == NibblePairFrom(value % 256)
        first == to_hex_char(high_pair.high)
        second == to_hex_char(high_pair.low)
        third == to_hex_char(low_pair.high)
        fourth == to_hex_char(low_pair.low)
    IN  IF first = "0" /\ second = "0" /\ third = "E" /\ fourth = "0" THEN "_00E0"
        ELSE IF first = "0" /\ second = "0" /\ third = "E" /\ fourth = "E" THEN "_00EE"
        ELSE IF first = "0" THEN "_0NNN"
        ELSE IF first = "1" THEN "_1NNN"
        ELSE IF first = "2" THEN "_2NNN"
        ELSE IF first = "3" THEN "_3XNN"
        ELSE IF first = "4" THEN "_4XNN"
        ELSE IF first = "5" /\ fourth = "0" THEN "_5XY0"
        ELSE IF first = "6" THEN "_6XNN"
        ELSE IF first = "7" THEN "_7XNN"
        ELSE IF first = "8" /\ fourth = "0" THEN "_8XY0"
        ELSE IF first = "8" /\ fourth = "1" THEN "_8XY1"
        ELSE IF first = "8" /\ fourth = "2" THEN "_8XY2"
        ELSE IF first = "8" /\ fourth = "3" THEN "_8XY3"
        ELSE IF first = "8" /\ fourth = "4" THEN "_8XY4"
        ELSE IF first = "8" /\ fourth = "5" THEN "_8XY5"
        ELSE IF first = "8" /\ fourth = "6" THEN "_8XY6"
        ELSE IF first = "8" /\ fourth = "7" THEN "_8XY7"
        ELSE IF first = "8" /\ fourth = "E" THEN "_8XYE"
        ELSE IF first = "9" /\ fourth = "0" THEN "_9XY0"
        ELSE IF first = "A" THEN "_ANNN"
        ELSE IF first = "B" THEN "_BNNN"
        ELSE IF first = "C" THEN "_CXNN"
        ELSE IF first = "D" THEN "_DXYN"
        ELSE IF first = "E" /\ third = "9" /\ fourth = "E" THEN "_EX9E"
        ELSE IF first = "E" /\ third = "A" /\ fourth = "1" THEN "_EXA1"
        ELSE IF first = "F" /\ third = "0" /\ fourth = "7" THEN "_FX07"
        ELSE IF first = "F" /\ third = "0" /\ fourth = "A" THEN "_FX0A"
        ELSE IF first = "F" /\ third = "1" /\ fourth = "5" THEN "_FX15"
        ELSE IF first = "F" /\ third = "1" /\ fourth = "8" THEN "_FX18"
        ELSE IF first = "F" /\ third = "1" /\ fourth = "E" THEN "_FX1E"
        ELSE IF first = "F" /\ third = "2" /\ fourth = "9" THEN "_FX29"
        ELSE IF first = "F" /\ third = "3" /\ fourth = "3" THEN "_FX33"
        ELSE IF first = "F" /\ third = "5" /\ fourth = "5" THEN "_FX55"
        ELSE IF first = "F" /\ third = "6" /\ fourth = "5" THEN "_FX65"
        ELSE "Unknown"

\* impl TryFrom<u16> for OpCode: the literal, "Unknown" for Err(OpCodeError::Unknown).
\* The arms are tried in order, as match tries them.
Decode(value) ==
    LET high_pair == NibblePairFrom(value \div 256)
        low_pair == NibblePairFrom(value % 256)
        first == to_hex_char(high_pair.high)
        second == to_hex_char(high_pair.low)
        third == to_hex_char(low_pair.high)
        fourth == to_hex_char(low_pair.low)
    IN  IF first = "0" /\ second = "0" /\ third = "E" /\ fourth = "0" THEN "_00E0"
        ELSE IF first = "0" /\ second = "0" /\ third = "E" /\ fourth = "E" THEN "_00EE"
        ELSE IF first = "0" THEN "_0NNN"
        ELSE IF first = "1" THEN "_1NNN"
        ELSE IF first = "2" THEN "_2NNN"
        ELSE IF first = "3" THEN "_3XNN"
        ELSE IF first = "4" THEN "_4XNN"
        ELSE IF first = "5" THEN "_5XY0"
        ELSE IF first = "6" THEN "_6XNN"
        ELSE IF first = "7" THEN "_7XNN"
        ELSE IF first = "8" /\ fourth = "0" THEN "_8XY0"
        ELSE IF first = "8" /\ fourth = "1" THEN "_8XY1"
        ELSE IF first = "8" /\ fourth = "2" THEN "_8XY2"
        ELSE IF first = "8" /\ fourth = "3" THEN "_8XY3"
        ELSE IF first = "8" /\ fourth = "4" THEN "_8XY4"
        ELSE IF first = "8" /\ fourth = "5" THEN "_8XY5"
        ELSE IF first = "8" /\ fourth = "6" THEN "_8XY6"
        ELSE IF first = "8" /\ fourth = "7" THEN "_8XY7"
        ELSE IF first = "8" /\ fourth = "E" THEN "_8XYE"
        ELSE IF first = "9" /\ fourth = "0" THEN "_9XY0"
        ELSE IF first = "A" THEN "_ANNN"
        ELSE IF first = "B" THEN "_BNNN"
        ELSE IF first = "C" THEN "_CXNN"
        ELSE IF first = "D" THEN "_DXYN"
        ELSE IF first = "E" /\ third = "9" /\ fourth = "E" THEN "_EX9E"
        ELSE IF first = "E" /\ third = "A" /\ fourth = "1" THEN "_EXA1"
        ELSE IF first = "F" /\ third = "0" /\ fourth = "7" THEN "_FX07"
        ELSE IF first = "F" /\ third = "0" /\ fourth = "A" THEN "_FX0A"
        ELSE IF first = "F" /\ third = "1" /\ fourth = "5" THEN "_FX15"
        ELSE IF first = "F" /\ third = "1" /\ fourth = "8" THEN "_FX18"
        ELSE IF first = "F" /\ third = "1" /\ fourth = "E" THEN "_FX1E"
        ELSE IF first = "F" /\ third = "2" /\ fourth = "9" THEN "_FX29"
        ELSE IF first = "F" /\ third = "3" /\ fourth = "3" THEN "_FX33"
        ELSE IF first = "F" /\ third = "5" /\ fourth = "5" THEN "_FX55"
        ELSE IF first = "F" /\ third = "6" /\ fourth = "5" THEN "_FX65"
        ELSE "Unknown"

---------------------------------------------------------------------------
\* Font table (virtual_machine/fonts.rs).

FontSet == <<
    240, 144, 144, 144, 240,
     32,  96,  32,  32, 112,
    240,  16, 240, 128, 240,
    240,  16, 240,  16, 240,
    144, 144, 240,  16,  16,
    240, 128, 240,  16, 240,
    240, 128, 240, 144, 240,
    240,  16,  32,  64,  64,
    240, 144, 240, 144, 240,
    240, 144, 240,  16, 240,
    240, 144, 240, 144, 144,
    224, 144, 224, 144, 224,
    240, 128, 128, 128, 240,
    224, 144, 144, 144, 224,
    240, 128, 240, 128, 240,
    240, 128, 240, 128, 128 >>

---------------------------------------------------------------------------
\* Keyboard mapping (data_structures/keypress_map.rs): KeyCode::Char(c) |-> hex code.

HexKeyMap ==
    [c \in {"1", "2", "3", "4", "q", "w", "e", "r",
            "a", "s", "d", "f", "z", "x", "c", "v"} |->
        CASE c = "1" -> 0   [] c = "2" -> 1   [] c = "3" -> 2   [] c = "4" -> 3
          [] c = "q" -> 4   [] c = "w" -> 5   [] c = "e" -> 6   [] c = "r" -> 7
          [] c = "a" -> 8   [] c = "s" -> 9   [] c = "d" -> 10  [] c = "f" -> 11
          [] c = "z" -> 12  [] c = "x" -> 13  [] c = "c" -> 14  [] c = "v" -> 15]

---------------------------------------------------------------------------
\* The engine as one record, and how an operation ends.

Chip ==
    [memory |-> memory, data_registers |-> data_registers,
     address_register |-> address_register, program_counter |-> program_counter,
     stack |-> stack, stack_pointer |-> stack_pointer, should_draw |-> should_draw,
     keypad |-> keypad, delay_timer |-> delay_timer, sound_timer |-> sound_timer,
     screen |-> screen, res |-> "ok"]

\* a panic: an index out of bounds, or an overflow under overflow checks
Panic(s) == [s EXCEPT !.res = "panic"]

\* an Err handed up by `?`
Err(s) == [s EXCEPT !.res = "err"]

---------------------------------------------------------------------------
\* Memory (virtual_machine/memory.rs).  A byte absent from the map is 0.

\* impl Index<usize> for Memory, for index < 4096
MemGet(m, index) == IF index \in DOMAIN m THEN m[index] ELSE 0

\* impl IndexMut<usize> for Memory, for index < 4096
MemPut(m, index, value) ==
    IF value = 0 THEN [a \in DOMAIN m \ {index} |-> m[a]]
    ELSE (index :> value) @@ m

\* self.memory[index] = value
MemWrite(s, index, value) ==
    IF s.res # "ok" THEN s
    ELSE IF index >= MemorySize THEN Panic(s)
    ELSE [s EXCEPT !.memory = MemPut(@, index, value)]

RECURSIVE load_font_data(_, _, _, _)
\* Memory::load_font_data: the loop `for idx in 0..fontset_size`, from idx on
\* (t is the engine one iteration leaves; the loops below bind it the same way)
load_font_data(s, fontset, offset, idx) ==
    IF idx = Len(fontset) \/ s.res # "ok" THEN s
    ELSE CHOOSE done \in {load_font_data(t, fontset, offset, idx + 1) :
                              t \in {MemWrite(s, offset + idx, fontset[idx + 1])}} : TRUE

---------------------------------------------------------------------------
\* Registers (virtual_machine/register.rs).

\* DataRegisters::read_idx
read_idx(s, register_idx) ==
    IF register_idx >= NumRegisters THEN [ok |-> FALSE, v |-> 0]
    ELSE [ok |-> TRUE, v |-> s.data_registers[register_idx]]

\* DataRegisters::write_idx
write_idx(s, register_idx, value) ==
    IF s.res # "ok" THEN s
    ELSE IF register_idx >= NumRegisters THEN Err(s)
    ELSE [s EXCEPT !.data_registers[register_idx] = value]

\* DataRegisters::read
read(s, register_identifier) ==
    LET index == from_str_radix(register_identifier)
    IN  IF index = -1 THEN [ok |-> FALSE, v |-> 0] ELSE read_idx(s, index)

\* DataRegisters::write
write(s, register_identifier, value) ==
    LET index == from_str_radix(register_identifier)
    IN  IF s.res # "ok" THEN s
        ELSE IF index = -1 THEN Err(s)
        ELSE write_idx(s, index, value)

\* AddressRegister::write on the address register I
IWrite(s, value) ==
    IF s.res # "ok" THEN s ELSE [s EXCEPT !.address_register = value % AddressMask]

\* mutant of PcWrite: the value is not masked
PcWrite_Unmasked(s, value) ==
    IF s.res # "ok" THEN s ELSE [s EXCEPT !.program_counter = value]

\* AddressRegister::write on the program counter
PcWrite(s, value) ==
    IF s.res # "ok" THEN s ELSE [s EXCEPT !.program_counter = value % AddressMask]

\* AddressRegister::step on the program counter: write((prev_value + size) as u16)
PcStep(s, size) ==
    IF s.res # "ok" THEN s ELSE PcWrite(s, (s.program_counter + size) % U16)

\* u8 + u8: a panic under overflow checks, the wrapped sum without
add_u8(a, b) == [panic |-> overflow_checks /\ a + b >= U8, v |-> (a + b) % U8]

\* u8 - u8: a panic under overflow checks, the wrapped difference without
sub_u8(a, b) == [panic |-> overflow_checks /\ a < b, v |-> (a - b + U8) % U8]

\* u16 - u16
sub_u16(a, b) == [panic |-> overflow_checks /\ a < b, v |-> (a - b + U16) % U16]

\* impl Display for Screen: one cell of the text, format!("{:08b}", 1 or 0) after
\* "0" is replaced by " " and "1" by "*"
CellText(on) == IF on THEN "       *" ELSE "        "

\* impl Display for Screen: the text, as its rows of cells
ScreenDisplay(scr) ==
    [row_idx \in 0 .. NUM_ROWS - 1 |->
        [col_idx \in 0 .. NUM_COLS - 1 |->
            LET coordinate == (NUM_ROWS * row_idx) + col_idx
            IN  CellText(coordinate \in scr)]]

\* the cells <<row, column>> of a text that hold a star
StarCells(text) ==
    {rc \in (0 .. NUM_ROWS - 1) \X (0 .. NUM_COLS - 1) : text[rc[1]][rc[2]] = "       *"}

\* Screen::clear
ScreenClear(s) == [s EXCEPT !.screen = {}]

\* mutant of is_pressed: a key above 15 is taken as key 15
is_pressed_Saturating(s, key) == s.keypad[IF key > 15 THEN 15 ELSE key]

\* Keypad::is_pressed
is_pressed(s, key) == s.keypad[key % 16]

\* Keypad::read on the host event event::read() returned: the mapped code, -1 for None
KeypadRead(event) ==
    IF event.kind = "key" /\ event.code \in DOMAIN HexKeyMap
    THEN HexKeyMap[event.code] % U8
    ELSE -1

\* Timer::tick
TimerTick(value) == sub_u8(value, 1)

\* the operand fields of an opcode
FieldX(opcode) == (opcode \div 256) % 16
FieldY(opcode) == (opcode \div 16) % 16
FieldN(opcode) == opcode % 16
FieldNN(opcode) == opcode % 256
FieldNNN(opcode) == opcode % 4096

---------------------------------------------------------------------------
\* Chip8::apply_opcode (virtual_machine/chip8.rs), one operator per match arm.
\* RegX and RegY are the register identifiers the arms compute from the opcode.

\* NibblePair::from(((opcode.value & 0x0F00) >> 8) as u8).low.to_hex_char()
RegX(opcode) == to_hex_char(NibblePairFrom(FieldX(opcode)).low)

\* NibblePair::from(((opcode.value & 0x00F0) >> 4) as u8).low.to_hex_char()
RegY(opcode) == to_hex_char(NibblePairFrom(FieldY(opcode)).low)

\* mutant of Op_0NNN: the arm advances the PC like the other forms
Op_0NNN_Advances(s, opcode) == PcStep(s, 2)

\* call machine code routine: the arm is empty
Op_0NNN(s, opcode) == s

\* clear the screen
Op_00E0(s, opcode) == PcStep(ScreenClear(s), 2)

\* mutant of Op_00EE: the popped stack entry is not cleared
Op_00EE_KeepsEntry(s, opcode) ==
    LET dec == sub_u16(s.stack_pointer, 1)
        popped == [s EXCEPT !.stack_pointer = dec.v]
    IN  IF dec.panic THEN Panic(s)
        ELSE IF popped.stack_pointer >= StackSize THEN Panic(popped)
        ELSE LET previous_program_counter == popped.stack[popped.stack_pointer]
             IN  PcStep(PcWrite(popped, previous_program_counter % AddressMask), 2)

\* return from a subroutine
Op_00EE(s, opcode) ==
    LET dec == sub_u16(s.stack_pointer, 1)
        popped == [s EXCEPT !.stack_pointer = dec.v]
    IN  IF dec.panic THEN Panic(s)
        ELSE IF popped.stack_pointer >= StackSize THEN Panic(popped)
        ELSE LET previous_program_counter == popped.stack[popped.stack_pointer]
                 cleared == [popped EXCEPT !.stack[popped.stack_pointer] = 0]
             IN  PcStep(PcWrite(cleared, previous_program_counter % AddressMask), 2)

\* jump to NNN
Op_1NNN(s, opcode) == PcWrite(s, FieldNNN(opcode))

\* mutant of Op_2NNN: the address of the subroutine is saved instead of the PC
Op_2NNN_SavesTarget(s, opcode) ==
    IF s.stack_pointer >= StackSize THEN Panic(s)
    ELSE LET saved == [s EXCEPT !.stack[s.stack_pointer] = FieldNNN(opcode)]
             pushed == [saved EXCEPT !.stack_pointer = (s.stack_pointer + 1) % U16]
         IN  PcWrite(pushed, FieldNNN(opcode))

\* call the subroutine at NNN
Op_2NNN(s, opcode) ==
    IF s.stack_pointer >= StackSize THEN Panic(s)
    ELSE LET saved == [s EXCEPT !.stack[s.stack_pointer] = s.program_counter]
             pushed == [saved EXCEPT !.stack_pointer = (s.stack_pointer + 1) % U16]
         IN  PcWrite(pushed, FieldNNN(opcode))

\* skip the next instruction if Vx == NN
Op_3XNN(s, opcode) ==
    LET quad == NibblePairFrom(FieldX(opcode))
        register_identifier == to_hex_char(quad.high)
        data == FieldNN(opcode)
        stepped == PcStep(s, 2)
        value_in_register == read(stepped, register_identifier)
    IN  IF value_in_register.ok /\ value_in_register.v = data
        THEN PcStep(stepped, 2)
        ELSE stepped

\* skip the next instruction if Vx != NN
Op_4XNN(s, opcode) ==
    LET quad == NibblePairFrom(FieldX(opcode))
        register_identifier == to_hex_char(quad.low)
        data == FieldNN(opcode)
        stepped == PcStep(s, 2)
        value_in_register == read(stepped, register_identifier)
    IN  IF value_in_register.ok /\ value_in_register.v # data
        THEN PcStep(stepped, 2)
        ELSE stepped

\* skip the next instruction if Vx == Vy
Op_5XY0(s, opcode) ==
    LET data_x == read(s, RegX(opcode))
        data_y == read(s, RegY(opcode))
    IN  IF ~data_x.ok \/ ~data_y.ok THEN Err(s)
        ELSE IF data_x.v = data_y.v THEN PcStep(PcStep(s, 2), 2)
        ELSE PcStep(s, 2)

\* Vx := NN
Op_6XNN(s, opcode) == PcStep(write(s, RegX(opcode), FieldNN(opcode)), 2)

\* Vx := Vx + NN
Op_7XNN(s, opcode) ==
    LET data_x == read(s, RegX(opcode))
        sum == add_u8(data_x.v, FieldNN(opcode))
    IN  IF ~data_x.ok THEN Err(s)
        ELSE IF sum.panic THEN Panic(s)
        ELSE PcStep(write(s, RegX(opcode), sum.v), 2)

\* Vx := Vy
Op_8XY0(s, opcode) ==
    LET data_y == read(s, RegY(opcode))
    IN  IF ~data_y.ok THEN Err(s)
        ELSE PcStep(write(s, RegX(opcode), data_y.v), 2)

\* the arms _8XY1, _8XY2, _8XY3: Vx := Vy op Vx
BitArm(s, opcode, op) ==
    LET data_y == read(s, RegY(opcode))
        data_x == read(s, RegX(opcode))
    IN  IF ~data_y.ok \/ ~data_x.ok THEN Err(s)
        ELSE PcStep(write(s, RegX(opcode), BitOp(op, data_y.v, data_x.v, 8)), 2)

\* Vx := Vx | Vy
Op_8XY1(s, opcode) == BitArm(s, opcode, "or")

\* Vx := Vx & Vy
Op_8XY2(s, opcode) == BitArm(s, opcode, "and")

\* Vx := Vx ^ Vy
Op_8XY3(s, opcode) == BitArm(s, opcode, "xor")

\* Vx := Vx + Vy, Vf := carry
Op_8XY4(s, opcode) ==
    LET data_y == read(s, RegY(opcode))
        data_x == read(s, RegX(opcode))
        flagged == write(s, "f", IF data_x.v + data_y.v > 255 THEN 1 ELSE 0)
        sum == add_u8(data_y.v, data_x.v)
    IN  IF ~data_y.ok \/ ~data_x.ok THEN Err(s)
        ELSE IF sum.panic THEN Panic(flagged)
        ELSE PcStep(write(flagged, RegX(opcode), sum.v), 2)

\* Vx := Vx - Vy, Vf := the flag the arm computes
Op_8XY5(s, opcode) ==
    LET data_y == read(s, RegY(opcode))
        data_x == read(s, RegX(opcode))
        flagged == write(s, "f", IF data_x.v > 255 - data_y.v THEN 1 ELSE 0)
        difference == sub_u8(data_x.v, data_y.v)
    IN  IF ~data_y.ok \/ ~data_x.ok THEN Err(s)
        ELSE IF difference.panic THEN Panic(flagged)
        ELSE PcStep(write(flagged, RegX(opcode), difference.v), 2)

\* mutant of Op_8XY6: the flag is taken after the shift
Op_8XY6_FlagAfterShift(s, opcode) ==
    LET data_x == read(s, RegX(opcode))
        shifted == write(s, RegX(opcode), data_x.v \div 2)
    IN  IF ~data_x.ok THEN Err(s)
        ELSE PcStep(write(shifted, "f", (data_x.v \div 2) % 2), 2)

\* Vf := Vx & 1, Vx := Vx >> 1
Op_8XY6(s, opcode) ==
    LET data_x == read(s, RegX(opcode))
        flagged == write(s, "f", data_x.v % 2)
    IN  IF ~data_x.ok THEN Err(s)
        ELSE PcStep(write(flagged, RegX(opcode), data_x.v \div 2), 2)

\* Vx := Vy - Vx, Vf := the flag the arm computes
Op_8XY7(s, opcode) ==
    LET data_y == read(s, RegY(opcode))
        data_x == read(s, RegX(opcode))
        flagged == write(s, "f", IF data_y.v > 255 - data_x.v THEN 1 ELSE 0)
        difference == sub_u8(data_y.v, data_x.v)
    IN  IF ~data_y.ok \/ ~data_x.ok THEN Err(s)
        ELSE IF difference.panic THEN Panic(flagged)
        ELSE PcStep(write(flagged, RegX(opcode), difference.v), 2)

\* Vf := Vx & (1 << 7), Vx := Vx << 1
Op_8XYE(s, opcode) ==
    LET data_x == read(s, RegX(opcode))
        flagged == write(s, "f", BitOp("and", data_x.v, 128, 8))
    IN  IF ~data_x.ok THEN Err(s)
        ELSE PcStep(write(flagged, RegX(opcode), (data_x.v * 2) % U8), 2)

\* mutant of Op_9XY0: the test of the skip is the one of _5XY0
Op_9XY0_SkipsOnEqual(s, opcode) ==
    LET data_y == read(s, RegY(opcode))
        data_x == read(s, RegX(opcode))
    IN  IF ~data_y.ok \/ ~data_x.ok THEN Err(s)
        ELSE IF data_x.v = data_y.v THEN PcStep(PcStep(s, 2), 2)
        ELSE PcStep(s, 2)

\* skip the next instruction if Vx != Vy
Op_9XY0(s, opcode) ==
    LET data_y == read(s, RegY(opcode))
        data_x == read(s, RegX(opcode))
    IN  IF ~data_y.ok \/ ~data_x.ok THEN Err(s)
        ELSE IF data_x.v # data_y.v THEN PcStep(PcStep(s, 2), 2)
        ELSE PcStep(s, 2)

\* I := NNN
Op_ANNN(s, opcode) == PcStep(IWrite(s, FieldNNN(opcode)), 2)

\* jump to NNN + V0
Op_BNNN(s, opcode) ==
    LET data_0 == read(s, "0")
    IN  IF ~data_0.ok THEN Err(s)
        ELSE PcWrite(s, ((FieldNNN(opcode) + data_0.v) % U16) % AddressMask)

\* Vx := NN & rng.gen::<u8>()
Op_CXNN(s, opcode, random_byte) ==
    PcStep(write(s, RegX(opcode), BitOp("and", FieldNN(opcode), random_byte, 8)), 2)

RECURSIVE DrawColumns_Sets(_, _, _, _, _, _)
\* mutant of DrawColumns: a set sprite bit sets the pixel instead of inverting it
DrawColumns_Sets(s, pixel, data_x, data_y, yline, xline) ==
    IF xline = 8 \/ s.res # "ok" THEN s
    ELSE IF Bit(pixel, 7 - xline) = 0
    THEN DrawColumns_Sets(s, pixel, data_x, data_y, yline, xline + 1)
    ELSE LET index == data_x + xline + ((data_y + yline) * ScreenWidth)
         IN  IF index >= ScreenSize THEN Panic(s)
             ELSE LET was_on == index \in s.screen
                      flagged == IF was_on THEN write_idx(s, 15, 1) ELSE s
                      toggled == [flagged EXCEPT !.screen = @ \cup {index}]
                  IN  CHOOSE done \in {DrawColumns_Sets(t, pixel, data_x, data_y, yline,
                                                        xline + 1) : t \in {toggled}} : TRUE

RECURSIVE DrawColumns(_, _, _, _, _, _)
\* the loop `for xline in 0..8` of the draw arm for the sprite row `pixel`, from xline on
DrawColumns(s, pixel, data_x, data_y, yline, xline) ==
    IF xline = 8 \/ s.res # "ok" THEN s
    ELSE IF Bit(pixel, 7 - xline) = 0
    THEN DrawColumns(s, pixel, data_x, data_y, yline, xline + 1)
    ELSE LET index == data_x + xline + ((data_y + yline) * ScreenWidth)
         IN  IF index >= ScreenSize THEN Panic(s)
             ELSE LET was_on == index \in s.screen
                      flagged == IF was_on THEN write_idx(s, 15, 1) ELSE s
                      toggled == [flagged EXCEPT !.screen =
                                     IF was_on THEN @ \ {index} ELSE @ \cup {index}]
                  IN  CHOOSE done \in {DrawColumns(t, pixel, data_x, data_y, yline, xline + 1) :
                                           t \in {toggled}} : TRUE

RECURSIVE DrawRows(_, _, _, _, _)
\* the loop `for yline in 0..num_rows` of the draw arm, from yline on
DrawRows(s, data_x, data_y, num_rows, yline) ==
    IF yline = num_rows \/ s.res # "ok" THEN s
    ELSE LET current_address == s.address_register
         IN  IF current_address + yline >= MemorySize THEN Panic(s)
             ELSE CHOOSE done \in {DrawRows(t, data_x, data_y, num_rows, yline + 1) :
                                      t \in {DrawColumns(s, MemGet(s.memory, current_address + yline),
                                                         data_x, data_y, yline, 0)}} : TRUE

\* mutant of Op_DXYN: the flag register is not reset before the rows are drawn
Op_DXYN_KeepsFlag(s, opcode) ==
    LET data_x == read(s, RegX(opcode))
        data_y == read(s, RegY(opcode))
        height == NibblePairFrom(FieldN(opcode)).low
        num_rows == to_u8(height)
        drawn == DrawRows(s, data_x.v, data_y.v, num_rows, 0)
    IN  IF ~data_x.ok \/ ~data_y.ok THEN Err(s)
        ELSE IF drawn.res # "ok" THEN drawn
        ELSE PcStep([drawn EXCEPT !.should_draw = TRUE], 2)

\* draw the N-row sprite at I at (Vx, Vy)
Op_DXYN(s, opcode) ==
    LET data_x == read(s, RegX(opcode))
        data_y == read(s, RegY(opcode))
        height == NibblePairFrom(FieldN(opcode)).low
        num_rows == to_u8(height)
        drawn == DrawRows(write_idx(s, 15, 0), data_x.v, data_y.v, num_rows, 0)
    IN  IF ~data_x.ok \/ ~data_y.ok THEN Err(s)
        ELSE IF drawn.res # "ok" THEN drawn
        ELSE PcStep([drawn EXCEPT !.should_draw = TRUE], 2)

\* skip the next instruction if the key in Vx is pressed
Op_EX9E(s, opcode) ==
    LET data_x == read(s, RegX(opcode))
    IN  IF ~data_x.ok THEN Err(s)
        ELSE IF is_pressed(s, data_x.v) THEN PcStep(PcStep(s, 2), 2)
        ELSE PcStep(s, 2)

\* skip the next instruction if the key in Vx is not pressed
Op_EXA1(s, opcode) ==
    LET data_x == read(s, RegX(opcode))
    IN  IF ~data_x.ok THEN Err(s)
        ELSE IF ~is_pressed(s, data_x.v) THEN PcStep(PcStep(s, 2), 2)
        ELSE PcStep(s, 2)

\* Vx := delay timer
Op_FX07(s, opcode) == PcStep(write(s, RegX(opcode), s.delay_timer), 2)

\* mutant of Op_FX0A: the key that was awaited is also marked as pressed
Op_FX0A_PressesKey(s, opcode, event) ==
    LET key_event == KeypadRead(event)
    IN  IF key_event # -1
        THEN PcStep(write([s EXCEPT !.keypad[key_event % 16] = TRUE],
                          RegX(opcode), key_event % 16), 2)
        ELSE PcStep(s, 2)

\* await a key event and store its code in Vx
Op_FX0A(s, opcode, event) ==
    LET key_event == KeypadRead(event)
    IN  IF key_event # -1
        THEN PcStep(write(s, RegX(opcode), key_event % 16), 2)
        ELSE PcStep(s, 2)

\* delay timer := Vx
Op_FX15(s, opcode) ==
    LET data_x == read(s, RegX(opcode))
    IN  IF ~data_x.ok THEN Err(s)
        ELSE PcStep([s EXCEPT !.delay_timer = data_x.v], 2)

\* sound timer := Vx
Op_FX18(s, opcode) ==
    LET data_x == read(s, RegX(opcode))
    IN  IF ~data_x.ok THEN Err(s)
        ELSE PcStep([s EXCEPT !.sound_timer = data_x.v], 2)

\* I := I + Vx
Op_FX1E(s, opcode) ==
    LET data_x == read(s, RegX(opcode))
    IN  IF ~data_x.ok THEN Err(s)
        ELSE PcStep(IWrite(s, ((s.address_register + data_x.v) % U16) % AddressMask), 2)

\* I := the location of the sprite of the character in Vx
Op_FX29(s, opcode) ==
    LET data_x == read(s, RegX(opcode))
        sprite_location == FontSpriteBase + ((data_x.v % 16) * 5)
    IN  IF ~data_x.ok THEN Err(s)
        ELSE PcStep(IWrite(s, sprite_location % U16), 2)

\* mutant of Op_FX33: the digits are those of the whole byte in Vx
Op_FX33_WholeByte(s, opcode) ==
    LET data_x == read(s, RegX(opcode))
        digit == data_x.v
        hundreds == MemWrite(s, s.address_register, (digit \div 100) % U8)
        tens == MemWrite(hundreds, s.address_register + 1, ((digit \div 10) % 10) % U8)
        ones == MemWrite(tens, s.address_register + 2, ((digit % 100) % 10) % U8)
    IN  IF ~data_x.ok THEN Err(s)
        ELSE PcStep(ones, 2)

\* memory[I], memory[I + 1], memory[I + 2] := the decimal digits the arm computes
Op_FX33(s, opcode) ==
    LET data_x == read(s, RegX(opcode))
        digit == data_x.v % 16
        hundreds == MemWrite(s, s.address_register, (digit \div 100) % U8)
        tens == MemWrite(hundreds, s.address_register + 1, ((digit \div 10) % 10) % U8)
        ones == MemWrite(tens, s.address_register + 2, ((digit % 100) % 10) % U8)
    IN  IF ~data_x.ok THEN Err(s)
        ELSE PcStep(ones, 2)

RECURSIVE StoreRegisters(_, _, _, _)
\* the loop `for register_idx in 0..=register_breakpoint` of _FX55, from register_idx on
StoreRegisters(s, register_idx, register_breakpoint, current_address) ==
    IF register_idx > register_breakpoint \/ s.res # "ok" THEN s
    ELSE LET to_store == read_idx(s, register_idx)
         IN  IF ~to_store.ok THEN Err(s)
             ELSE CHOOSE done \in {StoreRegisters(t, register_idx + 1, register_breakpoint,
                                                  current_address + 1) :
                                      t \in {MemWrite(s, current_address, to_store.v)}} : TRUE

\* mutant of Op_FX55: I is left past the last byte stored
Op_FX55_AdvancesI(s, opcode) ==
    LET register_breakpoint == from_str_radix(RegX(opcode))
    IN  IF register_breakpoint = -1 THEN Err(s)
        ELSE PcStep(IWrite(StoreRegisters(s, 0, register_breakpoint, s.address_register),
                           s.address_register + register_breakpoint + 1), 2)

\* memory[I ..= I + X] := V0 ..= Vx
Op_FX55(s, opcode) ==
    LET register_breakpoint == from_str_radix(RegX(opcode))
    IN  IF register_breakpoint = -1 THEN Err(s)
        ELSE PcStep(StoreRegisters(s, 0, register_breakpoint, s.address_register), 2)

RECURSIVE LoadRegisters(_, _, _, _)
\* the loop `for register_idx in 0..=register_breakpoint` of _FX65, from register_idx on
LoadRegisters(s, register_idx, register_breakpoint, current_address) ==
    IF register_idx > register_breakpoint \/ s.res # "ok" THEN s
    ELSE IF current_address >= MemorySize THEN Panic(s)
    ELSE CHOOSE done \in {LoadRegisters(t, register_idx + 1, register_breakpoint,
                                        current_address + 1) :
                             t \in {write_idx(s, register_idx, MemGet(s.memory, current_address))}} :
                TRUE

\* mutant of Op_FX65: the cell at I is cleared after the registers are loaded
Op_FX65_ClearsCell(s, opcode) ==
    LET register_breakpoint == from_str_radix(RegX(opcode))
    IN  IF register_breakpoint = -1 THEN Err(s)
        ELSE PcStep(MemWrite(LoadRegisters(s, 0, register_breakpoint, s.address_register),
                             s.address_register, 0), 2)

\* V0 ..= Vx := memory[I ..= I + X]
Op_FX65(s, opcode) ==
    LET register_breakpoint == from_str_radix(RegX(opcode))
    IN  IF register_breakpoint = -1 THEN Err(s)
        ELSE PcStep(LoadRegisters(s, 0, register_breakpoint, s.address_register), 2)

\* Chip8::apply_opcode: the arm of the opcode's literal.  event is what event::read()
\* returns to a wait for a key, random_byte what the generator returns to _CXNN.
apply_opcode(s, opcode, event, random_byte) ==
    LET literal == Decode(opcode)
    IN  CASE literal = "_0NNN" -> Op_0NNN(s, opcode)
          [] literal = "_00E0" -> Op_00E0(s, opcode)
          [] literal = "_00EE" -> Op_00EE(s, opcode)
          [] literal = "_1NNN" -> Op_1NNN(s, opcode)
          [] literal = "_2NNN" -> Op_2NNN(s, opcode)
          [] literal = "_3XNN" -> Op_3XNN(s, opcode)
          [] literal = "_4XNN" -> Op_4XNN(s, opcode)
          [] literal = "_5XY0" -> Op_5XY0(s, opcode)
          [] literal = "_6XNN" -> Op_6XNN(s, opcode)
          [] literal = "_7XNN" -> Op_7XNN(s, opcode)
          [] literal = "_8XY0" -> Op_8XY0(s, opcode)
          [] literal = "_8XY1" -> Op_8XY1(s, opcode)
          [] literal = "_8XY2" -> Op_8XY2(s, opcode)
          [] literal = "_8XY3" -> Op_8XY3(s, opcode)
          [] literal = "_8XY4" -> Op_8XY4(s, opcode)
          [] literal = "_8XY5" -> Op_8XY5(s, opcode)
          [] literal = "_8XY6" -> Op_8XY6(s, opcode)
          [] literal = "_8XY7" -> Op_8XY7(s, opcode)
          [] literal = "_8XYE" -> Op_8XYE(s, opcode)
          [] literal = "_9XY0" -> Op_9XY0(s, opcode)
          [] literal = "_ANNN" -> Op_ANNN(s, opcode)
          [] literal = "_BNNN" -> Op_BNNN(s, opcode)
          [] literal = "_CXNN" -> Op_CXNN(s, opcode, random_byte)
          [] literal = "_DXYN" -> Op_DXYN(s, opcode)
          [] literal = "_EX9E" -> Op_EX9E(s, opcode)
          [] literal = "_EXA1" -> Op_EXA1(s, opcode)
          [] literal = "_FX07" -> Op_FX07(s, opcode)
          [] literal = "_FX0A" -> Op_FX0A(s, opcode, event)
          [] literal = "_FX15" -> Op_FX15(s, opcode)
          [] literal = "_FX18" -> Op_FX18(s, opcode)
          [] literal = "_FX1E" -> Op_FX1E(s, opcode)
          [] literal = "_FX29" -> Op_FX29(s, opcode)
          [] literal = "_FX33" -> Op_FX33(s, opcode)
          [] literal = "_FX55" -> Op_FX55(s, opcode)
          [] literal = "_FX65" -> Op_FX65(s, opcode)
          [] OTHER -> Panic(s)

---------------------------------------------------------------------------
\* The cycle (Chip8::fetch_opcode, Chip8::step).

PrintBase == 512

\* Chip8::fetch_opcode: the second read panics when it leaves the memory
fetch_opcode(s) ==
    LET current_pc == s.program_counter
    IN  [panic |-> current_pc + 1 >= MemorySize,
         v |-> ((MemGet(s.memory, current_pc) * 256) % U16)
               + MemGet(s.memory, current_pc + 1)]

\* mutant of TickTimers: the timers tick without the test of zero
TickTimers_Unguarded(s) ==
    [s EXCEPT !.delay_timer = TimerTick(@).v, !.sound_timer = TimerTick(@).v]

\* the timers' part of Chip8::step
TickTimers(s) ==
    LET delayed == IF s.delay_timer > 0
                   THEN [s EXCEPT !.delay_timer = TimerTick(@).v] ELSE s
    IN  IF delayed.sound_timer > 0
        THEN [delayed EXCEPT !.sound_timer = TimerTick(@).v] ELSE delayed

\* mutant of DecodeFailure: the timers tick before the word is decoded
DecodeFailure_AfterTick(s) == Err(TickTimers(s))

\* `OpCode::try_from(opcode)?` of Chip8::step on a word that does not decode
DecodeFailure(s) == Err(s)

\* mutant of step: BEEP! is printed in every cycle the sound timer ticks in
step_BeepsWhileSounding(s, event, random_byte) ==
    LET fetched == fetch_opcode(s)
        opcode == fetched.v
        shown_before == sub_u16(s.program_counter, PrintBase)
        applied == apply_opcode(s, opcode, event, random_byte)
        shown_after == sub_u16(applied.program_counter, PrintBase)
        quiet(e) == [eng |-> e, beep |-> FALSE]
    IN  IF fetched.panic THEN quiet(Panic(s))
        ELSE IF shown_before.panic THEN quiet(Panic(s))
        ELSE IF Decode(opcode) = "Unknown" THEN quiet(DecodeFailure(s))
        ELSE IF applied.res # "ok" THEN quiet(applied)
        ELSE IF shown_after.panic THEN quiet(Panic(applied))
        ELSE [eng |-> TickTimers(applied), beep |-> applied.sound_timer > 0]

\* Chip8::step: the engine it leaves, and whether it printed BEEP!
step(s, event, random_byte) ==
    LET fetched == fetch_opcode(s)
        opcode == fetched.v
        shown_before == sub_u16(s.program_counter, PrintBase)
        applied == apply_opcode(s, opcode, event, random_byte)
        shown_after == sub_u16(applied.program_counter, PrintBase)
        quiet(e) == [eng |-> e, beep |-> FALSE]
    IN  IF fetched.panic THEN quiet(Panic(s))
        ELSE IF shown_before.panic THEN quiet(Panic(s))
        ELSE IF Decode(opcode) = "Unknown" THEN quiet(DecodeFailure(s))
        ELSE IF applied.res # "ok" THEN quiet(applied)
        ELSE IF shown_after.panic THEN quiet(Panic(applied))
        ELSE [eng |-> TickTimers(applied), beep |-> applied.sound_timer = 1]

---------------------------------------------------------------------------
\* Program files.  A file is its length and its non-zero bytes, offset |-> byte.

RECURSIVE WordsAt(_, _)
\* the big-endian bytes of the words ws, laid from file offset `offset` on
WordsAt(offset, ws) ==
    IF ws = <<>> THEN [a \in {} |-> 0]
    ELSE LET hi == Head(ws) \div 256
             lo == Head(ws) % 256
             rest == WordsAt(offset + 2, Tail(ws))
             with_lo == IF lo = 0 THEN rest ELSE ((offset + 1) :> lo) @@ rest
         IN  IF hi = 0 THEN with_lo ELSE (offset :> hi) @@ with_lo

File(ws) == [len |-> 2 * Len(ws), bytes |-> WordsAt(0, ws)]

\* a file with the words ws at its start and the words far at address `address`
FileWith(ws, address, far) ==
    [len |-> (address - ProgramOffset) + 2 * Len(far),
     bytes |-> WordsAt(0, ws) @@ WordsAt(address - ProgramOffset, far)]

\* Chip8::load_program on a file that was read: the loop writes every byte of the
\* file at program_offset + idx, and panics at the first index past the memory
load_program(s, program) ==
    LET program_offset == ProgramOffset
        fits(idx) == program_offset + idx < MemorySize
        written == {program_offset + idx : idx \in {i \in DOMAIN program.bytes : fits(i)}}
        kept == {a \in DOMAIN s.memory :
                    ~(a >= program_offset /\ a - program_offset < program.len)}
        loaded == [a \in kept \cup written |->
                      IF a \in written THEN program.bytes[a - program_offset]
                      ELSE s.memory[a]]
        stored == [s EXCEPT !.memory = loaded]
    IN  IF program.len > 0 /\ ~fits(program.len - 1) THEN Panic(stored) ELSE stored

\* Chip8::initialize
initialize(s) == load_font_data(PcWrite(s, 512), FontSet, FontOffset, 0)

---------------------------------------------------------------------------
\* The inputs: the program files main is run on, the host events a wait for a key
\* meets, the bytes the random generator returns.

MaxDepth == 17

Word(a, b, c, d) == (a * 4096) + (b * 256) + (c * 16) + d
WordNN(a, x, nn) == (a * 4096) + (x * 256) + nn

RegPairs == {<<1, 2>>, <<0, 1>>, <<2, 2>>, <<1, 15>>, <<15, 1>>, <<10, 11>>}

ValuePairs == {<<0, 0>>, <<5, 3>>, <<3, 5>>, <<7, 7>>, <<200, 100>>,
               <<255, 1>>, <<127, 128>>, <<129, 255>>}

\* the instructions run on registers X and Y once they hold a and b
OperandWords(X, Y, a, b) ==
    {Word(5, X, Y, 0), Word(9, X, Y, 0), Word(5, X, Y, 7), Word(13, X, Y, 5),
     Word(13, X, Y, 0)}
    \cup {Word(8, X, Y, d) : d \in {0, 1, 2, 3, 4, 5, 6, 7, 14}}
    \cup {WordNN(k, X, nn) : k \in {3, 4}, nn \in {a, b}}
    \cup {WordNN(7, X, nn) : nn \in {1, 255}}
    \cup {WordNN(12, X, 165)}
    \cup {WordNN(14, X, 158), WordNN(14, X, 161)}
    \cup {WordNN(15, X, nn) : nn \in {7, 10, 30, 41, 51, 85, 101}}
    \cup (IF a <= 7 /\ b <= 7 THEN {WordNN(15, X, 21), WordNN(15, X, 24)} ELSE {})

\* set X and Y, then run one instruction on them
OperandPrograms ==
    UNION {{File(<<WordNN(6, rv[1][1], rv[2][1]), WordNN(6, rv[1][2], rv[2][2]), w>>) :
               w \in OperandWords(rv[1][1], rv[1][2], rv[2][1], rv[2][2])} :
           rv \in RegPairs \X ValuePairs}

\* the same with the instruction in the last words of the memory: the program
\* counter wraps when it steps past it
WrapPrograms ==
    UNION {{FileWith(<<WordNN(6, 1, vp[1]), WordNN(6, 2, vp[2]), Word(1, 15, 15, a)>>,
                     4080 + a, <<w>>) :
               w \in {Word(5, 1, 2, 0), Word(9, 1, 2, 0), WordNN(3, 1, vp[1]),
                      WordNN(4, 1, vp[1]), WordNN(6, 1, 9), Word(8, 1, 2, 6)},
               a \in {12, 14}} :
           vp \in {<<7, 7>>, <<5, 3>>}}

\* d nested calls, each returned from: the call at 512 + 4k calls 512 + 4(k + 1)
\* and is followed by a return
RECURSIVE LadderWords(_, _)
LadderWords(k, d) ==
    IF k = d THEN <<Word(0, 0, 14, 14)>>
    ELSE <<8192 + ProgramOffset + (4 * (k + 1)), Word(0, 0, 14, 14)>> \o LadderWords(k + 1, d)

FlowPrograms ==
    {File(LadderWords(0, d)) : d \in 1 .. MaxDepth}
    \cup {File(<<>>),
          File(<<Word(2, 2, 0, 0)>>),
          File(<<Word(0, 0, 14, 14)>>),
          File(<<Word(2, 3, 0, 0)>>),
          FileWith(<<Word(2, 3, 0, 0), WordNN(6, 3, 9)>>, 768, <<Word(0, 0, 14, 14)>>),
          File(<<Word(2, 1, 0, 0)>>),
          File(<<Word(1, 0, 0, 0)>>),
          File(<<Word(1, 0, 0, 2)>>),
          File(<<Word(1, 15, 15, 15)>>),
          File(<<Word(1, 15, 15, 14)>>),
          File(<<Word(1, 2, 0, 0)>>),
          File(<<Word(0, 1, 2, 3), Word(0, 0, 14, 0)>>),
          File(<<WordNN(6, 0, 255), Word(11, 15, 15, 15)>>),
          File(<<WordNN(6, 0, 4), Word(11, 2, 0, 4), WordNN(6, 1, 1), Word(0, 0, 14, 0)>>),
          File(<<Word(10, 3, 0, 0), WordNN(6, 1, 1), Word(15, 1, 1, 14)>>),
          [len |-> 3585, bytes |-> (0 :> 96)]}

\* words no arm of the decoder matches
UnknownWords == {32776, 32783, 36865, 57344, 57759, 61440, 61584, 65535}

\* timers running, then one instruction
TimerPrograms ==
    {File(<<WordNN(6, 1, n), Word(15, 1, 1, 5), Word(15, 1, 1, 8), w>>) :
        n \in {1, 2, 3}, w \in UnknownWords \cup {Word(15, 2, 0, 7), Word(0, 0, 14, 0)}}

\* a sprite drawn over a stale flag, a second sprite drawn over it, and the second
\* drawn once more: V1 and V2 hold the position, first and second are the addresses
\* of the sprites, n is their height
DrawPrograms ==
    {File(<<WordNN(6, 1, pos[1]), WordNN(6, 2, pos[2]), WordNN(6, 15, 1),
            40960 + first, Word(13, 1, 2, n),
            40960 + second, Word(13, 1, 2, n), Word(13, 1, 2, n)>>) :
        pos \in {<<0, 0>>, <<5, 3>>, <<56, 27>>, <<60, 30>>, <<62, 10>>},
        first \in {0, 768},
        second \in {0, 10, 768, 4094},
        n \in {1, 5}}

\* store-bcd of a value at an address
BcdPrograms ==
    {File(<<WordNN(6, 1, v), 40960 + address, Word(15, 1, 3, 3)>>) :
        v \in {0, 9, 15, 123, 255}, address \in {256, 4093, 4094}}

\* V0 ..= Vx stored at an address, the registers set anew, and loaded back
RegisterPrograms ==
    {File(<<WordNN(6, 0, 7), WordNN(6, 1, 9), WordNN(6, 15, 12), 40960 + address,
            WordNN(15, x, 85), WordNN(6, 0, 3), WordNN(6, 1, 4), WordNN(6, 2, 5),
            WordNN(15, x, 101)>>) :
        x \in {0, 1, 15}, address \in {256, 4080, 4094, 4095}}

\* a register added to I near the end of the memory
AddressPrograms ==
    {File(<<WordNN(6, 1, v), 40960 + address, Word(15, 1, 1, 14)>>) :
        v \in {1, 255}, address \in {3841, 4095}}

Programs ==
    OperandPrograms \cup WrapPrograms \cup FlowPrograms \cup TimerPrograms
    \cup DrawPrograms \cup BcdPrograms \cup RegisterPrograms \cup AddressPrograms

\* what event::read() can return to a wait for a key
HostEvents ==
    {[kind |-> "key", code |-> "1"], [kind |-> "key", code |-> "v"],
     [kind |-> "key", code |-> "p"], [kind |-> "resize", code |-> ""],
     [kind |-> "error", code |-> ""]}

NoEvent == [kind |-> "none", code |-> ""]

RandomBytes == {0, 90, 255}

---------------------------------------------------------------------------
\* The run of main (bin/main.rs): new, load_program, initialize, start.

\* Chip8::new: the Default of every field
NewChip ==
    [memory |-> [a \in {} |-> 0],
     data_registers |-> [i \in 0 .. 15 |-> 0],
     address_register |-> 0,
     program_counter |-> 512,
     stack |-> [i \in 0 .. 15 |-> 0],
     stack_pointer |-> 0,
     should_draw |-> FALSE,
     keypad |-> [i \in 0 .. 15 |-> FALSE],
     delay_timer |-> 0,
     sound_timer |-> 0,
     screen |-> {},
     res |-> "ok"]

\* the engine fields become those of the record e
Becomes(e) ==
    /\ memory' = e.memory
    /\ data_registers' = e.data_registers
    /\ address_register' = e.address_register
    /\ program_counter' = e.program_counter
    /\ stack' = e.stack
    /\ stack_pointer' = e.stack_pointer
    /\ should_draw' = e.should_draw
    /\ keypad' = e.keypad
    /\ delay_timer' = e.delay_timer
    /\ sound_timer' = e.sound_timer
    /\ screen' = e.screen

engine == <<memory, data_registers, address_register, program_counter, stack,
            stack_pointer, should_draw, keypad, delay_timer, sound_timer, screen>>

\* history of a cycle that has not run
NoCycle == [ran |-> FALSE, opcode |-> 0, literal |-> "none", before |-> NewChip,
            res |-> "ok"]

\* no unit is run on its own
NoProbe == [unit |-> "none"]

\* main has constructed the engine (Chip8::new) and called nothing else
EngineInit ==
    /\ memory = NewChip.memory
    /\ data_registers = NewChip.data_registers
    /\ address_register = NewChip.address_register
    /\ program_counter = NewChip.program_counter
    /\ stack = NewChip.stack
    /\ stack_pointer = NewChip.stack_pointer
    /\ should_draw = NewChip.should_draw
    /\ keypad = NewChip.keypad
    /\ delay_timer = NewChip.delay_timer
    /\ sound_timer = NewChip.sound_timer
    /\ screen = NewChip.screen
    /\ overflow_checks \in BOOLEAN
    /\ phase = "new"
    /\ load_ok = FALSE
    /\ beep = FALSE
    /\ rendered = FALSE
    /\ shown = {}
    /\ last = [ran |-> FALSE, opcode |-> 0, literal |-> "none", before |-> NewChip,
               event |-> NoEvent, random_byte |-> 0, res |-> "ok",
               has_site |-> FALSE, site |-> NewChip, prior |-> NoCycle,
               sound_set |-> FALSE, beeps |-> 0]
    /\ call_sites = <<>>

Init == EngineInit /\ probe = NoProbe

\* main calls load_program and the file is read
LoadProgram ==
    /\ phase = "new"
    /\ \E program \in Programs :
          LET e == load_program(Chip, program)
          IN  /\ Becomes(e)
              /\ phase' = IF e.res = "ok" THEN "loaded" ELSE "panicked"
    /\ load_ok' = TRUE
    /\ UNCHANGED <<overflow_checks, beep, rendered, shown, last, call_sites, probe>>

\* main calls load_program and std::fs::read fails: the `if let Ok` is skipped
LoadFails ==
    /\ phase = "new"
    /\ phase' = "loaded"
    /\ load_ok' = FALSE
    /\ UNCHANGED <<engine, overflow_checks, beep, rendered, shown, last, call_sites, probe>>

\* main calls initialize
Initialize ==
    /\ phase = "loaded"
    /\ Becomes(initialize(Chip))
    /\ phase' = "step"
    /\ UNCHANGED <<overflow_checks, load_ok, beep, rendered, shown, last, call_sites,
                   probe>>

\* the inputs a cycle on opcode can read
EventsOf(literal) == IF literal = "_FX0A" THEN HostEvents ELSE {NoEvent}
RandomOf(literal) == IF literal = "_CXNN" THEN RandomBytes ELSE {0}

\* start's loop calls step
Step ==
    /\ phase = "step"
    /\ LET fetched == fetch_opcode(Chip)
           literal == IF fetched.panic THEN "none" ELSE Decode(fetched.v)
       IN  \E event \in EventsOf(literal), random_byte \in RandomOf(literal) :
              \E r \in {step(Chip, event, random_byte)} :
                  /\ Becomes(r.eng)
                  /\ beep' = r.beep
                  /\ phase' = CASE r.eng.res = "ok" -> "render"
                                [] r.eng.res = "err" -> "exit_err"
                                [] OTHER -> "panicked"
                  /\ last' = [ran |-> TRUE, opcode |-> fetched.v, literal |-> literal,
                              before |-> Chip, event |-> event,
                              random_byte |-> random_byte, res |-> r.eng.res,
                              has_site |-> literal = "_00EE" /\ call_sites # <<>>,
                              site |-> IF literal = "_00EE" /\ call_sites # <<>>
                                       THEN call_sites[Len(call_sites)] ELSE NewChip,
                              prior |-> [ran |-> last.ran, opcode |-> last.opcode,
                                         literal |-> last.literal, before |-> last.before,
                                         res |-> last.res],
                              sound_set |->
                                  IF r.eng.res = "ok" /\ literal = "_FX18"
                                  THEN data_registers[FieldX(fetched.v)] >= 1
                                  ELSE last.sound_set,
                              beeps |->
                                  (IF r.eng.res = "ok" /\ literal = "_FX18"
                                   THEN 0 ELSE last.beeps) + (IF r.beep THEN 1 ELSE 0)]
                  /\ call_sites' =
                        IF r.eng.res = "ok" /\ literal = "_2NNN"
                        THEN Append(call_sites, Chip)
                        ELSE IF r.eng.res = "ok" /\ literal = "_00EE"
                        THEN SubSeq(call_sites, 1, Len(call_sites) - 1)
                        ELSE call_sites
    /\ rendered' = FALSE
    /\ UNCHANGED <<overflow_checks, load_ok, shown, probe>>

\* mutant of Render: should_draw is not cleared after the screen is printed
Render_KeepsDirty ==
    /\ phase = "render"
    /\ rendered' = should_draw
    /\ shown' = IF should_draw THEN StarCells(ScreenDisplay(screen)) ELSE shown
    /\ phase' = "step"
    /\ UNCHANGED <<memory, data_registers, address_register, program_counter, stack,
                   stack_pointer, should_draw, keypad, delay_timer, sound_timer, screen,
                   overflow_checks, load_ok, beep, last, call_sites, probe>>

\* start's loop after a step that returned Ok: print the screen if should_draw
Render ==
    /\ phase = "render"
    /\ rendered' = should_draw
    /\ shown' = IF should_draw THEN StarCells(ScreenDisplay(screen)) ELSE shown
    /\ should_draw' = FALSE
    /\ phase' = "step"
    /\ UNCHANGED <<memory, data_registers, address_register, program_counter, stack,
                   stack_pointer, keypad, delay_timer, sound_timer, screen,
                   overflow_checks, load_ok, beep, last, call_sites, probe>>

Next == LoadProgram \/ LoadFails \/ Initialize \/ Step \/ Render

Spec == Init /\ [][Next]_vars

---------------------------------------------------------------------------
\* The units run on their own, as the repository's tests run them: the engine is
\* constructed and main calls nothing.

\* the variables a unit run on its own leaves alone
main_vars == <<memory, data_registers, address_register, program_counter, stack,
               stack_pointer, should_draw, keypad, delay_timer, sound_timer, screen,
               overflow_checks, phase, load_ok, beep, rendered, shown, last,
               call_sites>>

\* enum OpLiteral
OpLiterals ==
    {"_0NNN", "_00E0", "_00EE", "_1NNN", "_2NNN", "_3XNN", "_4XNN", "_5XY0", "_6XNN",
     "_7XNN", "_8XY0", "_8XY1", "_8XY2", "_8XY3", "_8XY4", "_8XY5", "_8XY6", "_8XY7",
     "_8XYE", "_9XY0", "_ANNN", "_BNNN", "_CXNN", "_DXYN", "_EX9E", "_EXA1", "_FX07",
     "_FX0A", "_FX15", "_FX18", "_FX1E", "_FX29", "_FX33", "_FX55", "_FX65"}

\* tests::test_opcode_parse starts: counter = 0, the first word is u16::MIN
DecoderInit ==
    /\ EngineInit
    /\ probe = [unit |-> "decoder", word |-> 0, literal |-> "none", counter |-> 0]

\* the body of the loop of tests::test_opcode_parse on the next word: try_into, and
\* counter += 1 when it is not Ok.  The test's range u16::MIN..u16::MAX ends when
\* probe.word = 65535; the scan goes on to the last u16 word.
TestOpcodeParse ==
    /\ probe.unit = "decoder"
    /\ probe.word < U16
    /\ LET literal == Decode(probe.word)
       IN  probe' = [unit |-> "decoder", word |-> probe.word + 1, literal |-> literal,
                     counter |-> probe.counter + (IF literal = "Unknown" THEN 1 ELSE 0)]
    /\ UNCHANGED main_vars

DecoderSpec == DecoderInit /\ [][TestOpcodeParse]_vars

\* tests::split_word_all_bytes starts on one byte of 0u8..=u8::MAX
NibbleInit ==
    /\ EngineInit
    /\ \E full_byte \in 0 .. 255 :
          probe = [unit |-> "nibble", stage |-> "byte", full_byte |-> full_byte,
                   pair |-> [high |-> 0, low |-> 0], back |-> 0, res |-> "ok"]

\* let observed: NibblePair = full_byte.into()
SplitWord ==
    /\ probe.unit = "nibble"
    /\ probe.stage = "byte"
    /\ probe' = [probe EXCEPT !.stage = "pair", !.pair = NibblePairFrom(probe.full_byte)]
    /\ UNCHANGED main_vars

\* let back_as_byte: u8 = observed.into()
JoinWord ==
    /\ probe.unit = "nibble"
    /\ probe.stage = "pair"
    /\ LET joined == U8FromNibblePair(probe.pair)
       IN  probe' = [probe EXCEPT !.stage = "joined", !.back = joined.v,
                                  !.res = IF joined.panic THEN "panic" ELSE "ok"]
    /\ UNCHANGED main_vars

NibbleNext == SplitWord \/ JoinWord

NibbleSpec == NibbleInit /\ [][NibbleNext]_vars

\* Timer::new(value), in either build
TimerInit ==
    /\ EngineInit
    /\ \E value \in 0 .. 255 :
          probe = [unit |-> "timer", value |-> value, before |-> value,
                   ticked |-> FALSE, res |-> "ok"]

\* Timer::tick on the timer
Tick ==
    /\ probe.unit = "timer"
    /\ ~probe.ticked
    /\ LET ticked == TimerTick(probe.value)
       IN  probe' = [probe EXCEPT !.ticked = TRUE,
                                  !.value = IF ticked.panic THEN @ ELSE ticked.v,
                                  !.res = IF ticked.panic THEN "panic" ELSE "ok"]
    /\ UNCHANGED main_vars

TimerSpec == TimerInit /\ [][Tick]_vars

\* Keypad::press(key_identifier) on the engine's keypad
press(s, key_identifier) ==
    LET index == from_str_radix(key_identifier)
    IN  IF index # -1 THEN [s EXCEPT !.keypad[index] = TRUE] ELSE s

\* Keypad::unpress(key_identifier) on the engine's keypad
unpress(s, key_identifier) ==
    LET index == from_str_radix(key_identifier)
    IN  IF index # -1 THEN [s EXCEPT !.keypad[index] = FALSE] ELSE s

\* the chars a caller passes to press and unpress: digits, both cases of a letter,
\* and a char that is no hex digit
KeyIdentifiers == {"0", "5", "f", "F", "g"}

\* Vx set to a key value (above 15 too), then one of the two key skips on Vx
KeyPrograms ==
    {File(<<WordNN(6, x, v), WordNN(14, x, w)>>) :
        x \in {0, 1, 15}, v \in {0, 5, 16, 21, 255}, w \in {158, 161}}

\* the engine is constructed and its keypad is driven before the program runs
KeyInit ==
    /\ EngineInit
    /\ probe = [unit |-> "keypad"]

\* the keypad's press is called before start
Press ==
    /\ probe.unit = "keypad"
    /\ phase \in {"new", "loaded"}
    /\ \E key_identifier \in KeyIdentifiers :
          keypad' = press(Chip, key_identifier).keypad
    /\ UNCHANGED <<memory, data_registers, address_register, program_counter, stack,
                   stack_pointer, should_draw, delay_timer, sound_timer, screen,
                   overflow_checks, phase, load_ok, beep, rendered, shown, last,
                   call_sites, probe>>

\* the keypad's unpress is called before start
Unpress ==
    /\ probe.unit = "keypad"
    /\ phase \in {"new", "loaded"}
    /\ \E key_identifier \in KeyIdentifiers :
          keypad' = unpress(Chip, key_identifier).keypad
    /\ UNCHANGED <<memory, data_registers, address_register, program_counter, stack,
                   stack_pointer, should_draw, delay_timer, sound_timer, screen,
                   overflow_checks, phase, load_ok, beep, rendered, shown, last,
                   call_sites, probe>>

\* load_program on a program of key skips
LoadKeyProgram ==
    /\ probe.unit = "keypad"
    /\ phase = "new"
    /\ \E program \in KeyPrograms :
          LET e == load_program(Chip, program)
          IN  /\ Becomes(e)
              /\ phase' = IF e.res = "ok" THEN "loaded" ELSE "panicked"
    /\ load_ok' = TRUE
    /\ UNCHANGED <<overflow_checks, beep, rendered, shown, last, call_sites, probe>>

KeyNext == Press \/ Unpress \/ LoadKeyProgram \/ Initialize \/ Step \/ Render

KeySpec == KeyInit /\ [][KeyNext]_vars

\* programs that leave the PC on blank memory: no word at all, a jump to blank
\* cells (the last two of the memory too), timers set before the words run out
BlankPrograms ==
    {File(<<>>)}
    \cup {File(<<4096 + nnn>>) : nnn \in {768, 4094}}
    \cup {File(<<WordNN(6, 1, v), Word(15, 1, 1, 5), Word(15, 1, 1, 8)>>) :
             v \in {0, 3, 20}}

\* main has constructed the engine; the program file is missing or runs out
BlankInit ==
    /\ EngineInit
    /\ probe = [unit |-> "blank"]

\* load_program on a program that leaves the PC on blank memory
LoadBlankProgram ==
    /\ probe.unit = "blank"
    /\ phase = "new"
    /\ \E program \in BlankPrograms :
          LET e == load_program(Chip, program)
          IN  /\ Becomes(e)
              /\ phase' = IF e.res = "ok" THEN "loaded" ELSE "panicked"
    /\ load_ok' = TRUE
    /\ UNCHANGED <<overflow_checks, beep, rendered, shown, last, call_sites, probe>>

BlankNext == LoadBlankProgram \/ LoadFails \/ Initialize \/ Step \/ Render

\* start's `loop` never pauses: whenever a step or a render is due it is taken
BlankSpec == BlankInit /\ [][BlankNext]_vars /\ WF_vars(Step) /\ WF_vars(Render)

---------------------------------------------------------------------------
\* Properties.  `last` holds the engine the last cycle started from; the engine
\* fields hold what the cycle left.

Before == last.before
X == FieldX(last.opcode)
Y == FieldY(last.opcode)
VX == Before.data_registers[X]
VY == Before.data_registers[Y]

\* the last cycle fetched a word of this literal
Fetched(literal) == last.ran /\ last.literal = literal

\* the last cycle fetched a word of this literal and step returned Ok
Ran(literal) == Fetched(literal) /\ last.res = "ok"

\* the program counter is n past where the last cycle found it
Advanced(n) == program_counter = (Before.program_counter + n) % 4096

\* C1: when the word fetched at PC matches no instruction form, step returns an
\* error and leaves every part of the engine as it was (no execute, no PC advance,
\* no timer tick, no beep), and start stops there with that error.
C1_DecodeFailureLeavesEngine ==
    Fetched("Unknown") =>
        /\ last.res = "err"
        /\ phase = "exit_err"
        /\ Chip = Before
        /\ ~beep
        /\ ~rendered
        /\ ~ENABLED Next

\* a decode failure met with both timers running and registers set
C1_Witness ==
    /\ Fetched("Unknown")
    /\ phase = "exit_err"
    /\ Before.delay_timer > 0
    /\ Before.sound_timer > 0
    /\ Before.data_registers[1] > 0

\* the skip predicate of the conditional-skip forms, as the instruction set states it
SkipHolds ==
    CASE last.literal = "_3XNN" -> VX = FieldNN(last.opcode)
      [] last.literal = "_4XNN" -> VX # FieldNN(last.opcode)
      [] last.literal = "_5XY0" -> VX = VY
      [] last.literal = "_9XY0" -> VX # VY
      [] last.literal = "_EX9E" -> Before.keypad[VX % 16]
      [] last.literal = "_EXA1" -> ~Before.keypad[VX % 16]
      [] OTHER -> FALSE

\* C2: every successful cycle on a form that is not jump, call, return or
\* jump-plus-v0, and whose skip predicate is false, leaves PC == (old PC + 2) & 0xFFF;
\* the call-machine-routine form (0NNN) included.
C2_EveryFormAdvancesByTwo ==
    (/\ last.ran
     /\ last.res = "ok"
     /\ last.literal \notin {"_1NNN", "_2NNN", "_00EE", "_BNNN"}
     /\ ~SkipHolds)
    => Advanced(2)

\* C3: skip-eq-imm advances PC by 4 when register[X] == NN and by 2 otherwise,
\* skip-ne-imm by 4 when register[X] != NN and by 2 otherwise, X being bits [11:8].
C3_SkipImmediate ==
    /\ Ran("_3XNN") => Advanced(IF VX = FieldNN(last.opcode) THEN 4 ELSE 2)
    /\ Ran("_4XNN") => Advanced(IF VX # FieldNN(last.opcode) THEN 4 ELSE 2)

\* the engine parts a skip must not touch
SkipFrame ==
    /\ data_registers = Before.data_registers
    /\ address_register = Before.address_register
    /\ memory = Before.memory
    /\ stack = Before.stack
    /\ stack_pointer = Before.stack_pointer
    /\ screen = Before.screen

\* C4: skip-eq-reg advances PC by 4 when register[X] == register[Y] and by 2
\* otherwise, skip-ne-reg by 4 when they differ and by 2 otherwise (mod 4096);
\* neither changes a register, I, the memory, the stack or the framebuffer.
C4_SkipRegister ==
    /\ Fetched("_5XY0") => Advanced(IF VX = VY THEN 4 ELSE 2) /\ SkipFrame
    /\ Fetched("_9XY0") => Advanced(IF VX # VY THEN 4 ELSE 2) /\ SkipFrame

\* skip-ne-reg ran on two different registers that hold the same non-zero value
C4_Witness ==
    /\ Ran("_9XY0")
    /\ phase = "render"
    /\ X # Y
    /\ VX = VY
    /\ VX > 0
    /\ program_counter = Before.program_counter + 2

\* C5: a return leaves PC at the call it returns from plus 2 (mod 4096), and the
\* stack pointer and the stack array as that call found them; the calls are
\* returned from last-in-first-out, to any depth up to 16.
C5_CallReturnRoundTrip ==
    Ran("_00EE") =>
        /\ last.has_site
        /\ program_counter = (last.site.program_counter + 2) % 4096
        /\ stack_pointer = last.site.stack_pointer
        /\ stack = last.site.stack
        /\ Len(call_sites) = stack_pointer

\* the return from the sixteenth nested call
C5_Witness ==
    /\ Ran("_00EE")
    /\ phase = "render"
    /\ Before.stack_pointer = 16
    /\ stack_pointer = 15
    /\ Len(call_sites) = 15

\* C6: a call with the stack pointer at 16 and a return with the stack pointer at 0
\* each end the cycle with an error returned by step, the stack pointer as it was;
\* the stack pointer is in [0, 16] in every state.
C6_StackViolationsAreErrors ==
    /\ (Fetched("_2NNN") /\ Before.stack_pointer = 16) =>
            last.res = "err" /\ stack_pointer = Before.stack_pointer
    /\ (Fetched("_00EE") /\ Before.stack_pointer = 0) =>
            last.res = "err" /\ stack_pointer = Before.stack_pointer
    /\ stack_pointer \in 0 .. 16

\* C7: add-reg with X != F succeeds for every pair of operands, sets the flag
\* register to 1 iff register[X] + register[Y] > 255 and to 0 otherwise, register[X]
\* to the sum mod 256, and advances PC by 2.
C7_AddRegister ==
    (Fetched("_8XY4") /\ X # 15) =>
        /\ last.res = "ok"
        /\ data_registers[15] = (IF VX + VY > 255 THEN 1 ELSE 0)
        /\ data_registers[X] = (VX + VY) % 256
        /\ Advanced(2)

\* C8: sub-reg with X != F sets the flag register to 1 iff register[X] >= register[Y]
\* and register[X] to (register[X] - register[Y]) mod 256; subn-reg sets it to 1 iff
\* register[Y] >= register[X] and register[X] to (register[Y] - register[X]) mod 256;
\* an underflow is not an error.
C8_SubtractBorrowFlag ==
    /\ (Fetched("_8XY5") /\ X # 15) =>
            /\ last.res = "ok"
            /\ data_registers[15] = (IF VX >= VY THEN 1 ELSE 0)
            /\ data_registers[X] = (VX - VY + 256) % 256
    /\ (Fetched("_8XY7") /\ X # 15) =>
            /\ last.res = "ok"
            /\ data_registers[15] = (IF VY >= VX THEN 1 ELSE 0)
            /\ data_registers[X] = (VY - VX + 256) % 256

\* C9: shl with X != F sets the flag register to the most significant bit of
\* register[X] as 0 or 1, (v >> 7) & 1, and register[X] to (v << 1) mod 256.
C9_ShiftLeft ==
    (Fetched("_8XYE") /\ X # 15) =>
        /\ data_registers[15] = (VX \div 128) % 2
        /\ data_registers[X] = (VX * 2) % 256

\* C10: shr with X != F sets the flag register to the least significant bit of
\* register[X], v & 1, and register[X] to v >> 1; no other register changes.
C10_ShiftRight ==
    (Fetched("_8XY6") /\ X # 15) =>
        /\ data_registers[15] = VX % 2
        /\ data_registers[X] = VX \div 2
        /\ \A i \in 0 .. 15 : i \notin {X, 15} => data_registers[i] = Before.data_registers[i]

\* shr ran on an odd value with the flag register holding something else
C10_Witness ==
    /\ Ran("_8XY6")
    /\ phase = "render"
    /\ X # 15
    /\ VX = 5
    /\ data_registers[X] = 2
    /\ data_registers[15] = 1
    /\ Before.data_registers[15] = 0
    /\ \E i \in 0 .. 15 : i \notin {X, 15} /\ Before.data_registers[i] # 0

\* C11: decoding any 16-bit word yields one of the 35 known forms or a decode
\* failure, and 13648 of the words in [0, 65535] yield a decode failure: 13647 of
\* the words in [0, 65534], the range the decoder's test scans, and the word 0xFFFF.
C11_DecoderComplete ==
    probe.unit = "decoder" =>
        /\ Cardinality(OpLiterals) = 35
        /\ "Unknown" \notin OpLiterals
        /\ probe.word > 0 => probe.literal \in OpLiterals \cup {"Unknown"}
        /\ probe.word = 65535 => probe.counter = 13647
        /\ probe.word = 65536 => probe.counter = 13648

\* the scan has decoded every word of [0, 65535], the last one a failure
C11_Witness ==
    /\ probe.unit = "decoder"
    /\ probe.word = 65536
    /\ probe.literal = "Unknown"

\* C11 as the claim states it: 13647 of the words in [0, 65535] yield a decode failure
C11_FailureCountOfAllWords ==
    probe.unit = "decoder" =>
        /\ probe.word > 0 => probe.literal \in OpLiterals \cup {"Unknown"}
        /\ probe.word = 65536 => probe.counter = 13647

\* C12: splitting a byte b gives high = b / 16 and low = b mod 16, both in
\* [0, 15] with high * 16 + low = b, and converting the pair back to a byte gives b.
C12_NibbleRoundTrip ==
    (probe.unit = "nibble" /\ probe.stage # "byte") =>
        /\ probe.pair.high = probe.full_byte \div 16
        /\ probe.pair.low = probe.full_byte % 16
        /\ probe.pair.high \in 0 .. 15
        /\ probe.pair.low \in 0 .. 15
        /\ (probe.pair.high * 16) + probe.pair.low = probe.full_byte
        /\ probe.stage = "joined" => (probe.res = "ok" /\ probe.back = probe.full_byte)

\* a byte whose halves differ, split and joined back
C12_Witness ==
    /\ probe.unit = "nibble"
    /\ probe.stage = "joined"
    /\ probe.full_byte = 165
    /\ probe.back = 165

\* C13: tick on a timer at 0 leaves it at 0 (it neither wraps to 255 nor fails), and
\* tick on a timer at v > 0 leaves v - 1.
C13_TickGuardsZero ==
    (probe.unit = "timer" /\ probe.ticked) =>
        /\ probe.res = "ok"
        /\ probe.value = IF probe.before = 0 THEN 0 ELSE probe.before - 1

\* I as the last cycle found it, and the fields N of its opcode
OldI == Before.address_register
N == FieldN(last.opcode)

\* the byte of an engine's memory at an address
ByteAt(e, a) == MemGet(e.memory, a)

\* every byte of the memory outside `written` is as the last cycle found it
MemoryKeptOutside(written) ==
    \A a \in (DOMAIN memory \cup DOMAIN Before.memory) \ written :
        ByteAt(Chip, a) = ByteAt(Before, a)

\* the addresses the last cycle indexes the memory with: the fetch at PC and PC + 1
\* and, when the word was fetched, the arm's reads and writes
AddressesUsed ==
    {Before.program_counter, Before.program_counter + 1}
    \cup (CASE last.literal = "_DXYN" -> {OldI + yline : yline \in 0 .. N - 1}
            [] last.literal = "_FX33" -> {OldI, OldI + 1, OldI + 2}
            [] last.literal \in {"_FX55", "_FX65"} -> {OldI + r : r \in 0 .. X}
            [] OTHER -> {})

\* C14: every memory read or write of a cycle (the fetch at PC and PC + 1, the
\* sprite read at I + row, store-bcd at I..I+2, store-regs and load-regs at
\* I..I+X) uses an address in [0, 4095].
C14_AddressesStayInRange ==
    last.ran =>
        /\ Before.program_counter \in 0 .. 4095
        /\ OldI \in 0 .. 4095
        /\ AddressesUsed \subseteq 0 .. 4095

\* the sprite of the last cycle lies wholly inside the grid, X and Y not being F
SpriteInGrid ==
    /\ X # 15
    /\ Y # 15
    /\ VX + 8 <= ScreenWidth
    /\ VY + N <= 32

\* the pixels under the set bits of the sprite the last cycle drew
SpritePixels ==
    {(VX + col) + ((VY + row) * ScreenWidth) :
        <<row, col>> \in {rc \in (0 .. N - 1) \X (0 .. 7) :
                            Bit(ByteAt(Before, OldI + rc[1]), 7 - rc[2]) = 1}}

\* the last two cycles drew the same sprite from the same I at the same position
DrewTwice ==
    /\ Ran("_DXYN")
    /\ last.prior.ran
    /\ last.prior.res = "ok"
    /\ last.prior.opcode = last.opcode
    /\ last.prior.before.address_register = OldI
    /\ last.prior.before.data_registers[X] = VX
    /\ last.prior.before.data_registers[Y] = VY
    /\ \A row \in 0 .. N - 1 :
          ByteAt(last.prior.before, OldI + row) = ByteAt(Before, OldI + row)

\* C15: for a sprite wholly inside the grid (X, Y != F), two draws of the same
\* sprite at the same position leave every pixel as it was before the first; from a
\* blank framebuffer and a sprite with a set bit, the first draw leaves the flag
\* register 0 and the second leaves it 1.
C15_DrawTwiceRestores ==
    (DrewTwice /\ SpriteInGrid) =>
        /\ screen = last.prior.before.screen
        /\ (last.prior.before.screen = {} /\ SpritePixels # {}) =>
               (Before.data_registers[15] = 0 /\ data_registers[15] = 1)

\* a glyph drawn twice on a blank framebuffer, in the last rows and columns
C15_Witness ==
    /\ DrewTwice
    /\ SpriteInGrid
    /\ VX = 56
    /\ VY = 27
    /\ N = 5
    /\ last.prior.before.screen = {}
    /\ Before.screen # {}
    /\ screen = {}
    /\ data_registers[15] = 1

C16_WitnessStale ==
    /\ Ran("_DXYN")
    /\ SpriteInGrid
    /\ Before.data_registers[15] = 1
    /\ Before.screen = {}
    /\ SpritePixels # {}
    /\ data_registers[15] = 0

\* C17: after initialize, font-address X with register[X] & 0xF = d sets I such
\* that memory[I .. I+4] are the five bytes of glyph d of the font table.
C17_FontAddressReachesGlyph ==
    Ran("_FX29") =>
        \A k \in 0 .. 4 :
            ByteAt(Chip, address_register + k) = FontSet[(5 * (VX % 16)) + k + 1]

C19_StoreAndLoadRegisters ==
    /\ (Ran("_FX55") /\ OldI + X <= 4095) =>
          /\ \A r \in 0 .. X : ByteAt(Chip, OldI + r) = Before.data_registers[r]
          /\ MemoryKeptOutside({OldI + r : r \in 0 .. X})
          /\ address_register = OldI
          /\ data_registers = Before.data_registers
    /\ (Ran("_FX65") /\ OldI + X <= 4095) =>
          /\ \A r \in 0 .. X : data_registers[r] = ByteAt(Before, OldI + r)
          /\ \A r \in (X + 1) .. 15 : data_registers[r] = Before.data_registers[r]
          /\ memory = Before.memory
          /\ address_register = OldI

\* registers 7 and 9 stored at 0x100 by store-regs 1, I left at 0x100
C19_Witness ==
    /\ Ran("_FX55")
    /\ X = 1
    /\ OldI = 256
    /\ Before.data_registers[0] = 7
    /\ Before.data_registers[1] = 9
    /\ ByteAt(Chip, 256) = 7
    /\ ByteAt(Chip, 257) = 9
    /\ address_register = 256

\* the sixteen registers loaded back from the last sixteen bytes of the memory
C19_WitnessLoad ==
    /\ Ran("_FX65")
    /\ X = 15
    /\ OldI = 4080
    /\ Before.data_registers[0] = 3
    /\ data_registers[0] = 7
    /\ data_registers[15] = 12

\* the host event of the last cycle is a press of one of the 16 mapped keys
MappedKey == last.event.kind = "key" /\ last.event.code \in DOMAIN HexKeyMap

\* C20: wait-key X does not complete on a host event that is not a key press or on
\* a key that is not mapped; whenever it completes and PC advances, register[X]
\* holds the mapped hex code (& 0xF) of the key that arrived.
C20_WaitKeyBlocks ==
    (Ran("_FX0A") /\ program_counter # Before.program_counter) =>
        /\ MappedKey
        /\ data_registers[X] = HexKeyMap[last.event.code] % 16

\* C21: start prints the framebuffer once after each successful cycle that ran the
\* draw form and never after a cycle that ran another form; should_draw is set only
\* by draw, is cleared after the render, and is false at the start of every cycle.
C21_RenderProtocol ==
    /\ phase \in {"new", "loaded", "step"} => ~should_draw
    /\ phase = "render" => ((should_draw <=> Ran("_DXYN")) /\ ~rendered)
    /\ (phase = "step" /\ last.ran) => (rendered <=> Ran("_DXYN"))
    /\ phase \in {"exit_err", "panicked"} => ~rendered
    /\ ~last.ran => (~rendered /\ shown = {})

\* the pass of start's loop after a draw has printed the screen and cleared the flag
C21_Witness ==
    /\ phase = "step"
    /\ Ran("_DXYN")
    /\ rendered
    /\ shown # {}
    /\ ~should_draw

\* what the program holds and has printed: the engine and the output of start
Observed == <<Chip, beep, rendered, shown>>

\* C22: when the program path cannot be read, load_program returns normally and
\* leaves the memory and the rest of the engine unchanged, and the failure is
\* surfaced: what the program holds and prints differs from what a successful load
\* of an empty file leaves.
C22_LoadFailureIsSurfaced ==
    (phase = "loaded" /\ ~load_ok) =>
        /\ Chip = NewChip
        /\ Observed # <<load_program(NewChip, File(<<>>)), FALSE, FALSE, {}>>

\* C23: PC and I are in [0, 4095] in every state; every write to either is masked
\* with 0x0FFF: stepping PC from 0xFFE by 2 yields 0, add-to-address yields
\* (I + register[X]) & 0xFFF and jump-plus-v0 yields (NNN + register[0]) & 0xFFF.
C23_TwelveBitAddresses ==
    /\ program_counter \in 0 .. 4095
    /\ address_register \in 0 .. 4095
    /\ (Before.program_counter = 4094 /\ (Fetched("_6XNN") \/ Fetched("_8XY6")))
          => program_counter = 0
    /\ Fetched("_FX1E") => address_register = (OldI + VX) % 4096
    /\ Fetched("_BNNN") =>
          program_counter = (FieldNNN(last.opcode) + Before.data_registers[0]) % 4096

\* 255 added to I = 0xFFF
C23_Witness ==
    /\ Fetched("_FX1E")
    /\ OldI = 4095
    /\ VX = 255
    /\ address_register = 254

\* PC stepped from 0xFFE
C23_WitnessStep ==
    /\ Fetched("_6XNN")
    /\ Before.program_counter = 4094
    /\ program_counter = 0

\* jump-plus-v0 past 0xFFF
C23_WitnessJump ==
    /\ Fetched("_BNNN")
    /\ FieldNNN(last.opcode) + Before.data_registers[0] > 4095
    /\ program_counter = 254

\* the timers as the arm of the last cycle left them, before the tick
PostExecuteDelay == IF last.literal = "_FX15" THEN VX ELSE Before.delay_timer
PostExecuteSound == IF last.literal = "_FX18" THEN VX ELSE Before.sound_timer

\* C24: in every successful cycle the tick comes after execute: each timer ends the
\* cycle at v - 1 if its post-execute value v is > 0 and at 0 if v = 0; read-delay
\* sees the value before the cycle's tick; a timer never wraps to 255, and setting
\* one timer never changes the other.
C24_TimerCountdown ==
    (last.ran /\ last.res = "ok") =>
        /\ delay_timer = IF PostExecuteDelay > 0 THEN PostExecuteDelay - 1 ELSE 0
        /\ sound_timer = IF PostExecuteSound > 0 THEN PostExecuteSound - 1 ELSE 0
        /\ delay_timer <= PostExecuteDelay
        /\ sound_timer <= PostExecuteSound
        /\ Ran("_FX07") => data_registers[X] = Before.delay_timer

\* set-sound 3 while the delay timer runs: the delay timer goes on by one
C24_Witness ==
    /\ Ran("_FX18")
    /\ VX = 3
    /\ Before.delay_timer = 2
    /\ delay_timer = 1
    /\ sound_timer = 2

\* both timers at 0 stay at 0
C24_WitnessFloor ==
    /\ Ran("_0NNN")
    /\ last.sound_set
    /\ Before.delay_timer = 0
    /\ Before.sound_timer = 0
    /\ delay_timer = 0
    /\ sound_timer = 0

\* C25: BEEP! is printed in exactly the cycles in which the sound timer is 1 at
\* tick time; over a countdown from n >= 1 with no set-sound in between it is
\* printed exactly once, and never in a cycle where the sound timer is 0 or above 1
\* at tick time.
C25_BeepOnLastTick ==
    /\ last.ran => (beep <=> (last.res = "ok" /\ PostExecuteSound = 1))
    /\ last.beeps <= 1
    /\ last.sound_set => last.beeps = (IF sound_timer = 0 THEN 1 ELSE 0)
    /\ ~last.ran => ~beep

\* a countdown from 3 has ended: one BEEP!, in the cycle that found the timer at 1
C25_Witness ==
    /\ last.ran
    /\ beep
    /\ last.sound_set
    /\ last.beeps = 1
    /\ Before.sound_timer = 1
    /\ sound_timer = 0
    /\ last.prior.before.sound_timer = 2

\* C26: add-imm X,NN succeeds for every register value v and every NN and leaves
\* register[X] = (v + NN) mod 256, also when v + NN > 255; the flag register is not
\* updated and PC advances by 2.
C26_AddImmediateWraps ==
    Fetched("_7XNN") =>
        /\ last.res = "ok"
        /\ data_registers[X] = (VX + FieldNN(last.opcode)) % 256
        /\ X # 15 => data_registers[15] = Before.data_registers[15]
        /\ Advanced(2)

\* the key the last cycle's Vx names: its low four bits
KeyOfVX == VX % 16

\* C27: for every X and every keypad state, skip-if-pressed (EX9E) advances the PC
\* by 4 when key (Vx & 0xF) is pressed and by 2 otherwise, skip-if-not-pressed
\* (EXA1) advances by 4 when that key is not pressed and by 2 otherwise; neither
\* waits for an event, and neither changes the key states or reports an error,
\* a Vx above 15 included.
C27_KeySkips ==
    /\ Fetched("_EX9E") =>
           /\ last.res = "ok"
           /\ Advanced(IF Before.keypad[KeyOfVX] THEN 4 ELSE 2)
           /\ last.event = NoEvent
           /\ keypad = Before.keypad
    /\ Fetched("_EXA1") =>
           /\ last.res = "ok"
           /\ Advanced(IF Before.keypad[KeyOfVX] THEN 2 ELSE 4)
           /\ last.event = NoEvent
           /\ keypad = Before.keypad

\* a skip-if-pressed on a Vx above 15 whose masked key is pressed, while key 15 is not
C27_Witness ==
    /\ Ran("_EX9E")
    /\ VX > 15
    /\ Before.keypad[KeyOfVX]
    /\ ~Before.keypad[15]
    /\ Advanced(4)

\* a skip-if-not-pressed on a pressed key
C27_WitnessNotPressed ==
    /\ Ran("_EXA1")
    /\ Before.keypad[KeyOfVX]
    /\ Advanced(2)

\* C28: no engine operation updates the key states: in every state reached through
\* load_program, initialize and start's cycles (a wait for a key included) all 16
\* keys read as not pressed, so skip-if-pressed always advances the PC by exactly 2
\* and skip-if-not-pressed always by exactly 4.
C28_KeysNeverPressed ==
    /\ \A key \in 0 .. 255 : ~is_pressed(Chip, key)
    /\ Fetched("_EX9E") => last.res = "ok" /\ Advanced(2)
    /\ Fetched("_EXA1") => last.res = "ok" /\ Advanced(4)

\* a wait for a key received a mapped key, and the key still reads as not pressed
C28_Witness ==
    /\ Ran("_FX0A")
    /\ MappedKey
    /\ data_registers[X] = HexKeyMap[last.event.code] % 16
    /\ ~is_pressed(Chip, data_registers[X])

\* a skip-if-not-pressed ran and skipped
C28_WitnessSkip ==
    /\ Ran("_EXA1")
    /\ Advanced(4)

\* the pixels the last cycle changed
ChangedPixels == (screen \ Before.screen) \cup (Before.screen \ screen)

\* the pixels of the 8-column by N-row rectangle at (Vx, Vy), columns and rows past
\* the edge of the grid wrapped to the other side; the clipped rectangle lies within
WrappedRectangle ==
    {((VX + col) % ScreenWidth) + (((VY + row) % NUM_ROWS) * ScreenWidth) :
        <<row, col>> \in (0 .. N - 1) \X (0 .. 7)}

\* C29: for every Vx, Vy and N, draw uses no framebuffer index outside 0 .. 2047
\* (an indexing outside is a panic) and changes no pixel outside the 8-column by
\* N-row rectangle at (Vx, Vy), whether the excess past the 64x32 grid is clipped
\* or wrapped; a draw that is rejected reports an error and changes no pixel.  The
\* sprite's rows are taken to lie within the memory.
C29_DrawStaysInRectangle ==
    (Fetched("_DXYN") /\ OldI + N <= MemorySize) =>
        /\ last.res # "panic"
        /\ ChangedPixels \subseteq WrappedRectangle
        /\ last.res = "err" => ChangedPixels = {}

\* C30: the rendering uses draw's index arithmetic: the cell shown at output row r,
\* column c is the pixel stored at index c + r * 64, for every r in 0 .. 31 and c
\* in 0 .. 63.
C30_RenderingMatchesDraw ==
    rendered =>
        \A r \in 0 .. NUM_ROWS - 1, c \in 0 .. NUM_COLS - 1 :
            (<<r, c>> \in shown) <=> ((c + (r * ScreenWidth)) \in screen)

\* C31: in every state the engine reaches by successful cycles, every stack slot at
\* an index >= the stack pointer holds 0, and every slot below it holds the PC of
\* the call that pushed it, a value in 0 .. 4095; a return zeroes the slot it pops.
C31_StackCleanliness ==
    (phase # "panicked" /\ last.res = "ok") =>
        /\ stack_pointer = Len(call_sites)
        /\ stack_pointer <= StackSize
        /\ \A i \in 0 .. StackSize - 1 :
              IF i >= stack_pointer
              THEN stack[i] = 0
              ELSE /\ stack[i] = call_sites[i + 1].program_counter
                   /\ stack[i] \in 0 .. 4095
        /\ Ran("_00EE") => stack[stack_pointer] = 0

\* a return from a nested call: the slot it popped held a PC and holds 0, and a
\* slot below it still holds its call's PC
C31_Witness ==
    /\ Ran("_00EE")
    /\ stack_pointer >= 1
    /\ Before.stack[stack_pointer] # 0
    /\ stack[stack_pointer] = 0
    /\ stack[stack_pointer - 1] = call_sites[stack_pointer].program_counter

\* the memory cells the form of the last cycle may write
CellsOfForm ==
    CASE last.literal = "_FX33" -> {OldI + k : k \in 0 .. 2}
      [] last.literal = "_FX55" -> {OldI + r : r \in 0 .. X}
      [] OTHER -> {}

\* C32: once the font and the program are loaded, a cycle changes memory cells only
\* through store-bcd (cells I .. I+2) and store-regs (cells I .. I+X); every other
\* form, load-regs and draw included, leaves every byte of the memory unchanged.
C32_MemoryFrame ==
    last.ran =>
        /\ MemoryKeptOutside(CellsOfForm)
        /\ last.literal \notin {"_FX33", "_FX55"} => memory = Before.memory

\* a load-regs that changed a register and no byte of the memory
C32_Witness ==
    /\ Ran("_FX65")
    /\ data_registers # Before.data_registers
    /\ memory = Before.memory
    /\ memory # NewChip.memory

\* a draw that changed pixels and no byte of the memory
C32_WitnessDraw ==
    /\ Ran("_DXYN")
    /\ screen # Before.screen
    /\ memory = Before.memory

\* a store-regs that changed a byte of the memory
C32_WitnessStore ==
    /\ Ran("_FX55")
    /\ memory # Before.memory

\* main ran on a blank program memory: the load failed and initialize was called
BlankRun == ~load_ok /\ phase \notin {"new", "loaded"}

\* C33: a cycle on the word 0x0000 decodes it as call-machine-routine, succeeds and
\* leaves PC, registers, I, memory, stack and framebuffer unchanged; so from the
\* initialized state with a blank memory the driver loop stays at PC = 0x200, fetches
\* no other instruction, reports no error, and goes on running cycles forever.
C33_EmptyProgramRun ==
    /\ []((Fetched("_0NNN") /\ last.opcode = 0) =>
             /\ last.res = "ok"
             /\ program_counter = Before.program_counter
             /\ data_registers = Before.data_registers
             /\ address_register = OldI
             /\ memory = Before.memory
             /\ stack = Before.stack
             /\ stack_pointer = Before.stack_pointer
             /\ screen = Before.screen)
    /\ [](BlankRun =>
             /\ program_counter = 512
             /\ phase \in {"step", "render"}
             /\ last.ran => (Fetched("_0NNN") /\ last.opcode = 0))
    /\ [](BlankRun => <>(phase = "render"))
    /\ [](BlankRun => <>(phase = "step" /\ last.ran))

\* the second cycle in a row of a run on a blank memory, still at 0x200
C33_Witness ==
    /\ BlankRun
    /\ Ran("_0NNN")
    /\ last.opcode = 0
    /\ last.prior.ran
    /\ last.prior.literal = "_0NNN"
    /\ program_counter = 512
    /\ phase = "render"

\* the word the decoder's scan decoded last, its leading and its fourth hex digit
Scanned == probe.word - 1
LeadingDigit == Scanned \div 4096
FourthDigit == Scanned % 16

\* the forms of the leading digits that decode whatever the other digits are
FormOfLeadingDigit ==
    [d \in {1, 2, 3, 4, 5, 6, 7, 10, 11, 12, 13} |->
        CASE d = 1 -> "_1NNN"  [] d = 2 -> "_2NNN"  [] d = 3 -> "_3XNN"
          [] d = 4 -> "_4XNN"  [] d = 5 -> "_5XY0"  [] d = 6 -> "_6XNN"
          [] d = 7 -> "_7XNN"  [] d = 10 -> "_ANNN" [] d = 11 -> "_BNNN"
          [] d = 12 -> "_CXNN" [] d = 13 -> "_DXYN"]

\* the forms of leading digit 8 by fourth digit
FormOfEight ==
    [d \in {0, 1, 2, 3, 4, 5, 6, 7, 14} |->
        CASE d = 0 -> "_8XY0"  [] d = 1 -> "_8XY1"  [] d = 2 -> "_8XY2"
          [] d = 3 -> "_8XY3"  [] d = 4 -> "_8XY4"  [] d = 5 -> "_8XY5"
          [] d = 6 -> "_8XY6"  [] d = 7 -> "_8XY7"  [] d = 14 -> "_8XYE"]

\* C34: a word with leading digit 5 decodes to skip-eq-reg whatever its fourth
\* digit is; leading digit 9 decodes (to skip-ne-reg) only with fourth digit 0;
\* leading digit 8 decodes only for a fourth digit in {0 .. 7, E}; leading digit 0
\* decodes to clear-screen for 0x00E0, return for 0x00EE and call-machine-routine
\* for every other word; leading digits 1-4, 6, 7, A-D always decode.
C34_DecoderByLeadingDigit ==
    (probe.unit = "decoder" /\ probe.word > 0) =>
        /\ LeadingDigit \in DOMAIN FormOfLeadingDigit =>
              probe.literal = FormOfLeadingDigit[LeadingDigit]
        /\ LeadingDigit = 9 =>
              probe.literal = (IF FourthDigit = 0 THEN "_9XY0" ELSE "Unknown")
        /\ LeadingDigit = 8 =>
              probe.literal = (IF FourthDigit \in DOMAIN FormOfEight
                               THEN FormOfEight[FourthDigit] ELSE "Unknown")
        /\ LeadingDigit = 0 =>
              probe.literal = (CASE Scanned = 224 -> "_00E0"
                                 [] Scanned = 238 -> "_00EE"
                                 [] OTHER -> "_0NNN")

\* the scan decoded 0x5127, a word of leading digit 5 and fourth digit 7
C34_Witness ==
    /\ probe.unit = "decoder"
    /\ Scanned = 20775
    /\ probe.literal = "_5XY0"

\* the scan decoded 0x9127, a word of leading digit 9 and fourth digit 7
C34_WitnessNine ==
    /\ probe.unit = "decoder"
    /\ Scanned = 37159
    /\ probe.literal = "Unknown"

====
